---- MODULE Spec2Model ----
(***************************************************************************)
(* Data normalisation and merge layer of the reporting pipeline.           *)
(*                                                                         *)
(* Spec      : AlayaCare_Data_Cleaning.process_dataset for one dataset     *)
(*             ("Notes"), with the file-system steps of write_atomic_csv / *)
(*             write_atomic_xlsx taken one at a time.                      *)
(* SpecTreat : Treat_Data_Cleaning.run(), one process_file/process_excel   *)
(*             call per step.                                              *)
(* SpecFilter: Treat_Data_Cleaning._filter_out_test_ids applied to one     *)
(*             table.                                                      *)
(* SpecClassify: the per-attachment branch of AlayaCare_Pulling.main on    *)
(*             one file name.                                              *)
(* SpecSave  : save_replace and save_dated_replace_same_day on one         *)
(*             directory.                                                  *)
(* SpecPull  : AlayaCare_Pulling.main, one item of the inbox per step.     *)
(* SpecMove  : Treat_File_Moving._atomic_replace_move, one os.replace call *)
(*             per step; SpecMoveFair adds that the call keeps running.    *)
(* SpecWrite : the table writers with the destination locked or free.      *)
(* SpecMain  : Spec started with two candidate tables in CLEAN_DIR.        *)
(* SpecRead  : the encoding chosen for one delimited file.                 *)
(* SpecHeader: process_file from the header search on.                     *)
(* SpecTransform: _rename_header_ci and _rpt_progstafffinance_transform on *)
(*             one table.                                                  *)
(* SpecPipeline: main.py, the UI thread and the run_pipeline threads;      *)
(*             SpecPipelineFair adds that threads and UI keep running.     *)
(* SpecDates : the report window Treat_Pulling computes when imported.     *)
(***************************************************************************)
EXTENDS Integers, Sequences, FiniteSets, TLC

VARIABLES
    clean,          \* CLEAN_DIR: candidate main path -> file
    tmpf,           \* CLEAN_DIR: candidate main path -> file at <path>.tmp
    raw,            \* raw directory of the dataset: file name -> file
    pc,             \* position of process_dataset
    main_path,      \* process_dataset local: result of find_existing_main
    out_path,       \* process_dataset local
    write_as_xlsx,  \* process_dataset local
    combined,       \* process_dataset local: the frame after drop_duplicates
    outcome,        \* how the last process_dataset call ended
    hist,           \* one record per finished process_dataset call
    pre_clean,      \* CLEAN_DIR as it was when the current/last call started
    treat_pc,       \* run(): index of the next call of its fixed sequence
    treat_ids,      \* the ID cells of the rows the Treat raw exports carry
    treat_clean,    \* Treat clean folder: destination name -> table
    treat_made,     \* run(): calls of the sequence made so far
    treat_outcome,  \* how run() ended
    flt_header,     \* _filter_out_test_ids argument: header
    flt_rows,       \* _filter_out_test_ids argument: rows
    flt_id_col,     \* _filter_out_test_ids argument: id_col_name
    flt_out,        \* what _filter_out_test_ids returned
    cls_name,       \* the FileName of one attachment
    cls_adt_done,   \* main local adt_done_last24h when the attachment is met
    cls_hhri_done,  \* main local hhri_done_last24h when the attachment is met
    cls_out,        \* the dataset main saved the attachment as
    sv_dir,         \* dest_dir of the save helpers: the files it holds
    sv_last,        \* the last save call: helper, stem, directory before, result
    sv_count,       \* save calls made
    pull_pc,        \* main: idle, or running over the items
    pull_adt_done,  \* main local adt_done_last24h
    pull_hhri_done, \* main local hhri_done_last24h
    pull_saved,     \* the save calls of the run that returned
    pull_mails,     \* items the run has met
    pull_runs,      \* runs of main started
    mv_pc,          \* position of _atomic_replace_move
    mv_retries,     \* _atomic_replace_move argument retries
    mv_i,           \* _atomic_replace_move loop variable i
    mv_files,       \* contents of src, the temp file and dest
    mv_locked,      \* dest is held open by another process
    mv_tries,       \* the os.replace calls made
    mv_slept,       \* the time.sleep calls made
    wr_fn,          \* the table writer called
    wr_pc,          \* position of the writer
    wr_files,       \* contents of the temporary file and the destination
    wr_locked,      \* the destination is held open by another process
    wr_tries,       \* the calls made on the destination
    wr_count,       \* writer calls made
    rd_reader,      \* the function that reads the delimited file
    rd_bytes,       \* the bytes of the file
    rd_out,         \* how the read ended, and with which encoding
    hd_call,        \* process_file: the call of run() made
    hd_records,     \* the records of the source file
    hd_clean,       \* the table at the destination of the call
    hd_out,         \* how the call ended, and the header index it found
    tf_header,      \* the header handed to the header helpers and the transform
    tf_rows,        \* the rows handed to the transform
    tf_mapping,     \* _rename_header_ci argument mapping_ci
    tf_renamed,     \* what _rename_header_ci returned
    tf_out,         \* what _rpt_progstafffinance_transform returned
    app_running,    \* App.running
    app_q,          \* App.q: the events posted and not yet drained
    btn_run,        \* AutomationScreen.btn_run is enabled
    ui_status,      \* AutomationScreen.rows: step key -> state shown
    ui_progress,    \* AutomationScreen.progress_running
    ui_log,         \* the lines _drain_queue logged for terminal events
    workers,        \* the run_pipeline threads started, in order
    today,          \* datetime.today().date() when Treat_Pulling is imported
    TODAY,          \* Treat_Pulling.TODAY
    START_DATE,     \* Treat_Pulling.START_DATE
    form_dates      \* the start and end inputs of the report form

vars == <<clean, tmpf, raw, pc, main_path, out_path, write_as_xlsx, combined,
          outcome, hist, pre_clean,
          treat_pc, treat_ids, treat_clean, treat_made, treat_outcome,
          flt_header, flt_rows, flt_id_col, flt_out,
          cls_name, cls_adt_done, cls_hhri_done, cls_out,
          sv_dir, sv_last, sv_count,
          pull_pc, pull_adt_done, pull_hhri_done, pull_saved, pull_mails, pull_runs,
          mv_pc, mv_retries, mv_i, mv_files, mv_locked, mv_tries, mv_slept,
          wr_fn, wr_pc, wr_files, wr_locked, wr_tries, wr_count,
          rd_reader, rd_bytes, rd_out,
          hd_call, hd_records, hd_clean, hd_out,
          tf_header, tf_rows, tf_mapping, tf_renamed, tf_out,
          app_running, app_q, btn_run, ui_status, ui_progress, ui_log, workers,
          today, TODAY, START_DATE, form_dates>>

mergeVars == <<clean, tmpf, raw, pc, main_path, out_path, write_as_xlsx,
               combined, outcome, hist, pre_clean>>

treatVars == <<treat_pc, treat_ids, treat_clean, treat_made, treat_outcome>>

filterVars == <<flt_header, flt_rows, flt_id_col, flt_out>>

\* the variables of the other programs of the repository, which neither
\* process_dataset nor run() touches
classifyVars == <<cls_name, cls_adt_done, cls_hhri_done, cls_out>>

saveVars == <<sv_dir, sv_last, sv_count>>

pullVars == <<pull_pc, pull_adt_done, pull_hhri_done, pull_saved, pull_mails, pull_runs>>

moveVars == <<mv_pc, mv_retries, mv_i, mv_files, mv_locked, mv_tries, mv_slept>>

writeVars == <<wr_fn, wr_pc, wr_files, wr_locked, wr_tries, wr_count>>

readVars == <<rd_reader, rd_bytes, rd_out>>

headerVars == <<hd_call, hd_records, hd_clean, hd_out>>

transformVars == <<tf_header, tf_rows, tf_mapping, tf_renamed, tf_out>>

pipelineVars == <<app_running, app_q, btn_run, ui_status, ui_progress, ui_log, workers>>

datesVars == <<today, TODAY, START_DATE, form_dates>>

restVars == <<filterVars, classifyVars, saveVars, pullVars, moveVars,
              writeVars, readVars, headerVars,
              transformVars, pipelineVars, datesVars>>

\* for each of the other programs: the variables it leaves alone
exceptFilterVars ==
    <<mergeVars, treatVars, classifyVars, saveVars, pullVars,
      moveVars, writeVars, readVars, headerVars,
      transformVars, pipelineVars, datesVars>>

exceptClassifyVars ==
    <<mergeVars, treatVars, filterVars, saveVars, pullVars,
      moveVars, writeVars, readVars, headerVars,
      transformVars, pipelineVars, datesVars>>

exceptSaveVars ==
    <<mergeVars, treatVars, filterVars, classifyVars, pullVars,
      moveVars, writeVars, readVars, headerVars,
      transformVars, pipelineVars, datesVars>>

exceptPullVars ==
    <<mergeVars, treatVars, filterVars, classifyVars, saveVars,
      moveVars, writeVars, readVars, headerVars,
      transformVars, pipelineVars, datesVars>>

exceptMoveVars ==
    <<mergeVars, treatVars, filterVars, classifyVars, saveVars,
      pullVars, writeVars, readVars, headerVars,
      transformVars, pipelineVars, datesVars>>

exceptWriteVars ==
    <<mergeVars, treatVars, filterVars, classifyVars, saveVars,
      pullVars, moveVars, readVars, headerVars,
      transformVars, pipelineVars, datesVars>>

exceptReadVars ==
    <<mergeVars, treatVars, filterVars, classifyVars, saveVars,
      pullVars, moveVars, writeVars, headerVars,
      transformVars, pipelineVars, datesVars>>

exceptHeaderVars ==
    <<mergeVars, treatVars, filterVars, classifyVars, saveVars,
      pullVars, moveVars, writeVars, readVars,
      transformVars, pipelineVars, datesVars>>

exceptTransformVars ==
    <<mergeVars, treatVars, filterVars, classifyVars, saveVars, pullVars,
      moveVars, writeVars, readVars, headerVars,
      pipelineVars,
      datesVars>>

exceptPipelineVars ==
    <<mergeVars, treatVars, filterVars, classifyVars, saveVars, pullVars,
      moveVars, writeVars, readVars, headerVars, transformVars,
      datesVars>>

exceptDatesVars ==
    <<mergeVars, treatVars, filterVars, classifyVars, saveVars, pullVars,
      moveVars, writeVars, readVars, headerVars, transformVars, pipelineVars>>

----------------------------------------------------------------------------
(* Bounds *)

MaxMainRows == 1     \* rows of the canonical table present before the first run
MaxRawRows  == 1     \* rows of one raw file
MaxRuns     == 2     \* process_dataset calls in one behaviour

----------------------------------------------------------------------------
(* Cells, rows, files                                                      *)
(*                                                                         *)
(* A cell is [t, v]: v is its text, t is "txt" for a cell of a delimited   *)
(* text file (no type on disk), and "num" / "str" for a value pandas holds *)
(* in a frame or a spreadsheet cell stores.  A row is <<ID cell, Val cell>>*)

Cell(t, v) == [t |-> t, v |-> v]

NumericTexts == {"1"}

TextRowPool == { <<Cell("txt", "1"), Cell("txt", "x")>>,
                 <<Cell("txt", "1"), Cell("txt", "y")>>,
                 <<Cell("txt", "a"), Cell("txt", "x")>> }

\* the same rows as a spreadsheet stores them: numbers as numbers
SheetRowPool == { <<Cell("num", "1"), Cell("str", "x")>>,
                  <<Cell("num", "1"), Cell("str", "y")>>,
                  <<Cell("str", "a"), Cell("str", "x")>> }

SeqsUpTo(S, n) == UNION { [1..k -> S] : k \in 0..n }

NoFile == [fmt |-> "none", rows |-> <<>>, state |-> "absent", sheet |-> ""]

\* state: "ok" readable, "bad" read_table raises on it, "partial" half written
\* sheet: the name of the first sheet of a spreadsheet, "" for delimited text
File(fmt, rows, state, sheet) ==
    [fmt |-> fmt, rows |-> rows, state |-> state, sheet |-> sheet]

NoPath == [base |-> "", ext |-> ""]

Range(s) == { s[i] : i \in 1..Len(s) }

----------------------------------------------------------------------------
(* AlayaCare_Data_Cleaning: configuration of the "Notes" dataset *)

MainBaseCandidates == <<"Notes", "Note">>
DefaultMainBasename == "Notes"
SheetName == "Notes"
MainExts == <<".csv", ".xlsx", ".xls">>

RawPatterns == << [prefix |-> "Note",  ext |-> ".csv"],
                  [prefix |-> "Note",  ext |-> ".xlsx"],
                  [prefix |-> "Note",  ext |-> ".xls"],
                  [prefix |-> "Notes", ext |-> ".csv"],
                  [prefix |-> "Notes", ext |-> ".xlsx"],
                  [prefix |-> "Notes", ext |-> ".xls"] >>

MainPaths == { [base |-> b, ext |-> e] : b \in Range(MainBaseCandidates),
                                         e \in Range(MainExts) }

\* The raw files of the model, in lexicographic order of their paths
\* ("Note_1.xlsx" < "Notes_2.csv" because "_" sorts before "s").
RawNames == << [stem |-> "Note_1",  ext |-> ".xlsx"],
               [stem |-> "Notes_2", ext |-> ".csv"] >>

StartsWith(stem, prefix) ==
    \/ prefix = "Note"  /\ stem \in {"Note_1", "Notes_2"}
    \/ prefix = "Notes" /\ stem = "Notes_2"

\* glob.glob of one pattern: the names of the directory that match it
GlobMatches(dir, pat) ==
    SelectSeq(RawNames, LAMBDA n : /\ dir[n] # NoFile
                                   /\ n.ext = pat.ext
                                   /\ StartsWith(n.stem, pat.prefix))

RECURSIVE FlattenSeq(_)
FlattenSeq(ss) == IF ss = <<>> THEN <<>> ELSE Head(ss) \o FlattenSeq(Tail(ss))

\* gather_raw_files: pattern-major, a name matched by two patterns is listed
\* twice; no name that matches a pattern starts with "~$" or "._", so the
\* is_temp_or_hidden filter keeps every element.
gather_raw_files(dir, patterns) ==
    FlattenSeq([i \in 1..Len(patterns) |-> GlobMatches(dir, patterns[i])])

NameRank(n) == CHOOSE i \in 1..Len(RawNames) : RawNames[i] = n

\* sorted(daily_files)
Sorted(files) ==
    FlattenSeq([r \in 1..Len(RawNames) |->
                  SelectSeq(files, LAMBDA n : NameRank(n) = r)])

\* find_existing_main: base-name major, extension minor
\* find_existing_main with the two loops exchanged
find_existing_main_ExtMajor(dir, base_names) ==
    LET cands == FlattenSeq([e \in 1..Len(MainExts) |->
                    [b \in 1..Len(base_names) |->
                        [base |-> base_names[b], ext |-> MainExts[e]]]])
        hits  == SelectSeq(cands, LAMBDA p : dir[p] # NoFile)
    IN  IF hits = <<>> THEN NoPath ELSE Head(hits)

find_existing_main(dir, base_names) ==
    LET cands == FlattenSeq([b \in 1..Len(base_names) |->
                    [e \in 1..Len(MainExts) |->
                        [base |-> base_names[b], ext |-> MainExts[e]]]])
        hits  == SelectSeq(cands, LAMBDA p : dir[p] # NoFile)
    IN  IF hits = <<>> THEN NoPath ELSE Head(hits)

----------------------------------------------------------------------------
(* read_table / to_csv / to_excel *)

\* pd.read_csv infers one type per column: numeric when every cell of the
\* column parses as a number, text otherwise.
ColumnIsNumeric(rows, j) ==
    /\ rows # <<>>
    /\ \A i \in 1..Len(rows) : rows[i][j].v \in NumericTexts

ReadCsv(rows) ==
    [i \in 1..Len(rows) |->
        [j \in 1..Len(rows[i]) |->
            Cell(IF ColumnIsNumeric(rows, j) THEN "num" ELSE "str", rows[i][j].v)]]

\* DataFrame.to_csv writes the text of every value
ToCsv(frame) ==
    [i \in 1..Len(frame) |->
        [j \in 1..Len(frame[i]) |-> Cell("txt", frame[i][j].v)]]

\* pd.read_excel / DataFrame.to_excel: a spreadsheet cell keeps its own type
ReadExcel(rows) == rows
ToExcel(frame)  == frame

Raised == [ok |-> FALSE, rows |-> <<>>]
Frame(rows) == [ok |-> TRUE, rows |-> rows]

read_table(ext, f) ==
    IF f.state # "ok" THEN Raised
    ELSE IF ext \in {".csv", ".txt"} THEN Frame(ReadCsv(f.rows))
    ELSE IF ext \in {".xlsx", ".xls"} THEN Frame(ReadExcel(f.rows))
    ELSE Raised

\* the text of a table, whatever its format: what a reader of the file sees
TextOf(rows) == ToCsv(rows)

----------------------------------------------------------------------------
(* process_dataset: loading and merging *)

RECURSIVE DropDuplicatesFrom(_, _)
DropDuplicatesFrom(s, seen) ==
    IF s = <<>> THEN <<>>
    ELSE IF Head(s) \in seen THEN DropDuplicatesFrom(Tail(s), seen)
    ELSE <<Head(s)>> \o DropDuplicatesFrom(Tail(s), seen \cup {Head(s)})

\* DataFrame.drop_duplicates(): first occurrence kept, order kept
drop_duplicates(s) == DropDuplicatesFrom(s, {})

\* frames.append(df_main) inside try/except
LoadMain(dir, mp) ==
    IF mp = NoPath THEN <<>>
    ELSE LET r == read_table(mp.ext, dir[mp])
         IN  IF r.ok THEN <<r.rows>> ELSE <<>>

\* LoadRaw with the loop left at the first file whose read fails
RECURSIVE LoadRaw_StopAtFirstError(_, _)
LoadRaw_StopAtFirstError(dir, files) ==
    IF files = <<>> THEN <<>>
    ELSE LET r == read_table(Head(files).ext, dir[Head(files)])
         IN  IF r.ok THEN <<r.rows>> \o LoadRaw_StopAtFirstError(dir, Tail(files))
             ELSE <<>>

\* for p in sorted(daily_files): try read_table / except: skip
RECURSIVE LoadRaw(_, _)
LoadRaw(dir, files) ==
    IF files = <<>> THEN <<>>
    ELSE LET r == read_table(Head(files).ext, dir[Head(files)])
         IN  (IF r.ok THEN <<r.rows>> ELSE <<>>) \o LoadRaw(dir, Tail(files))

Frames(cdir, rdir, mp) ==
    LoadMain(cdir, mp) \o LoadRaw(rdir, Sorted(gather_raw_files(rdir, RawPatterns)))

\* the two early returns of process_dataset
NothingFound(rdir, mp) == gather_raw_files(rdir, RawPatterns) = <<>> /\ mp = NoPath
\* NoReadableData with the check "if not frames" left out
NoReadableData_Unchecked(frames) == FALSE

NoReadableData(frames) == frames = <<>>

Combined(frames) == drop_duplicates(FlattenSeq(frames))

OutPath(mp) ==
    IF mp # NoPath THEN mp ELSE [base |-> DefaultMainBasename, ext |-> ".csv"]

WriteAsXlsx(mp) == mp # NoPath /\ mp.ext \in {".xlsx", ".xls"}

\* what a complete write puts at the destination
NewFile(frame, xlsx) ==
    IF xlsx THEN File("xlsx", ToExcel(frame), "ok", SheetName)
            ELSE File("csv", ToCsv(frame), "ok", "")


----------------------------------------------------------------------------
(* process_dataset as a state machine *)

EmptyDir == [p \in MainPaths |-> NoFile]

\* the record of a finished call; fault is what the environment did to it:
\* "io" an operating-system error on a file operation, "stop" the process
\* was stopped, "none" nothing
Ended(how, path, fault) ==
    [outcome |-> how, fault |-> fault, found |-> main_path', path |-> path,
     before |-> pre_clean'[path], after |-> clean'[path], tmp |-> tmpf'[path]]

\* lines 95-141: gather, find, the two early returns, load, concat,
\* drop_duplicates, choice of path and format
Load ==
    /\ pc = "idle"
    /\ Len(hist) < MaxRuns
    /\ LET mp     == find_existing_main(clean, MainBaseCandidates)
           frames == Frames(clean, raw, mp)
       IN  /\ main_path' = mp
           /\ pre_clean' = clean
           /\ IF NothingFound(raw, mp) \/ NoReadableData(frames)
              THEN /\ pc' = "idle"
                   /\ outcome' = "skipped"
                   /\ out_path' = NoPath
                   /\ write_as_xlsx' = FALSE
                   /\ combined' = <<>>
                   /\ UNCHANGED <<clean, tmpf>>
                   /\ hist' = Append(hist, Ended("skipped", OutPath(mp), "none"))
              ELSE /\ pc' = "write_tmp"
                   /\ outcome' = "running"
                   /\ out_path' = OutPath(mp)
                   /\ write_as_xlsx' = WriteAsXlsx(mp)
                   /\ combined' = Combined(frames)
                   /\ UNCHANGED <<clean, tmpf, hist>>
    /\ UNCHANGED <<raw, treatVars, restVars>>

\* write_atomic_csv line 51, df.to_csv(tmp_path): the temporary file is
\* complete
WriteTmp ==
    /\ pc = "write_tmp"
    /\ ~write_as_xlsx
    /\ tmpf' = [tmpf EXCEPT ![out_path] = NewFile(combined, write_as_xlsx)]
    /\ pc' = "remove_final"
    /\ UNCHANGED <<clean, raw, main_path, out_path, write_as_xlsx, combined,
                   outcome, hist, pre_clean, treatVars, restVars>>

\* write_atomic_xlsx line 58, pd.ExcelWriter(tmp_path, engine="openpyxl"):
\* ExcelWriter checks the extension of a path given as a string against the
\* engine's supported ones (.xlsx, .xlsm) before it opens anything, and
\* tmp_path ends in ".tmp": ValueError, no file is created
WriteTmpRejected ==
    /\ pc = "write_tmp"
    /\ write_as_xlsx
    /\ pc' = "idle"
    /\ outcome' = "raised"
    /\ UNCHANGED <<clean, tmpf, pre_clean, main_path>>
    /\ hist' = Append(hist, Ended("raised", out_path, "none"))
    /\ UNCHANGED <<raw, out_path, write_as_xlsx, combined, treatVars, restVars>>

\* df.to_csv(tmp_path) raises an OSError: before the file is created, or
\* after part of it was written
WriteTmpFails ==
    /\ pc = "write_tmp"
    /\ ~write_as_xlsx
    /\ \E left \in {tmpf[out_path], File("csv", <<>>, "partial", "")} :
          tmpf' = [tmpf EXCEPT ![out_path] = left]
    /\ pc' = "idle"
    /\ outcome' = "raised"
    /\ UNCHANGED <<clean, pre_clean, main_path>>
    /\ hist' = Append(hist, Ended("raised", out_path, "io"))
    /\ UNCHANGED <<raw, out_path, write_as_xlsx, combined, treatVars, restVars>>

\* if os.path.exists(final_path): os.remove(final_path)
RemoveFinal ==
    /\ pc = "remove_final"
    /\ clean' = IF clean[out_path] # NoFile
                THEN [clean EXCEPT ![out_path] = NoFile] ELSE clean
    /\ pc' = "replace"
    /\ UNCHANGED <<tmpf, raw, main_path, out_path, write_as_xlsx, combined,
                   outcome, hist, pre_clean, treatVars, restVars>>

\* os.remove(final_path) raises PermissionError: the destination is open in
\* another program
RemoveFinalFails ==
    /\ pc = "remove_final"
    /\ clean[out_path] # NoFile
    /\ pc' = "idle"
    /\ outcome' = "raised"
    /\ UNCHANGED <<clean, tmpf, pre_clean, main_path>>
    /\ hist' = Append(hist, Ended("raised", out_path, "io"))
    /\ UNCHANGED <<raw, out_path, write_as_xlsx, combined, treatVars, restVars>>

\* os.replace(tmp_path, final_path)
Replace ==
    /\ pc = "replace"
    /\ clean' = [clean EXCEPT ![out_path] = tmpf[out_path]]
    /\ tmpf' = [tmpf EXCEPT ![out_path] = NoFile]
    /\ pc' = "idle"
    /\ outcome' = "written"
    /\ UNCHANGED <<pre_clean, main_path>>
    /\ hist' = Append(hist, Ended("written", out_path, "none"))
    /\ UNCHANGED <<raw, out_path, write_as_xlsx, combined, treatVars, restVars>>

\* os.replace raises (PermissionError, OSError)
ReplaceFails ==
    /\ pc = "replace"
    /\ pc' = "idle"
    /\ outcome' = "raised"
    /\ UNCHANGED <<clean, tmpf, pre_clean, main_path>>
    /\ hist' = Append(hist, Ended("raised", out_path, "io"))
    /\ UNCHANGED <<raw, out_path, write_as_xlsx, combined, treatVars, restVars>>

\* execution stops during the write (the process is killed, the machine goes
\* down): while the temporary file is being written, or between two of the
\* file-system steps
Stop ==
    /\ pc \in {"write_tmp", "remove_final", "replace"}
    /\ pc' = "idle"
    /\ outcome' = "stopped"
    /\ \E left \in {tmpf[out_path]} \cup
                    (IF pc = "write_tmp" /\ ~write_as_xlsx
                     THEN {File("csv", <<>>, "partial", "")} ELSE {}) :
          tmpf' = [tmpf EXCEPT ![out_path] = left]
    /\ UNCHANGED <<clean, pre_clean, main_path>>
    /\ hist' = Append(hist, Ended("stopped", out_path, "stop"))
    /\ UNCHANGED <<raw, out_path, write_as_xlsx, combined, treatVars, restVars>>


----------------------------------------------------------------------------
(* Initial states: the directories a run can find *)

FormatOfExt(ext) == IF ext \in {".xlsx", ".xls"} THEN "xlsx" ELSE "csv"

\* what an unreadable file holds is never seen by read_table: one content
UnreadableRows(ext) ==
    IF FormatOfExt(ext) = "xlsx"
    THEN << <<Cell("str", "a"), Cell("str", "x")>> >>
    ELSE << <<Cell("txt", "a"), Cell("txt", "x")>> >>

FilesOfExt(ext, maxRows, sheets) ==
    IF FormatOfExt(ext) = "xlsx"
    THEN { File("xlsx", r, "ok", sh) : r \in SeqsUpTo(SheetRowPool, maxRows),
                                       sh \in sheets }
         \cup { File("xlsx", UnreadableRows(ext), "bad", sh) : sh \in sheets }
    ELSE { File("csv", r, "ok", "") : r \in SeqsUpTo(TextRowPool, maxRows) }
         \cup { File("csv", UnreadableRows(ext), "bad", "") }

\* CLEAN_DIR before the first run: no canonical table, or one
InitClean ==
    {EmptyDir} \cup
    UNION { { [EmptyDir EXCEPT ![p] = f] :
                f \in FilesOfExt(p.ext, MaxMainRows, {"Sheet1"}) } :
            p \in MainPaths }

\* the raw directory: each raw file absent or present
InitRaw ==
    { [n \in Range(RawNames) |-> IF n = RawNames[1] THEN a ELSE b] :
        a \in FilesOfExt(RawNames[1].ext, MaxRawRows, {"Sheet1"}) \cup {NoFile},
        b \in FilesOfExt(RawNames[2].ext, MaxRawRows, {"Sheet1"}) \cup {NoFile} }

TreatIdle ==
    /\ treat_pc = 0
    /\ treat_ids = <<>>
    /\ treat_clean = <<>>
    /\ treat_made = 0
    /\ treat_outcome = "none"

FilterIdle ==
    /\ flt_header = <<>>
    /\ flt_rows = <<>>
    /\ flt_id_col = ""
    /\ flt_out = [returned |-> FALSE, header |-> <<>>, rows |-> <<>>]

ClassifyIdle ==
    /\ cls_name = <<>>
    /\ cls_adt_done = FALSE
    /\ cls_hhri_done = FALSE
    /\ cls_out = [returned |-> FALSE, dataset |-> ""]

\* no save helper called: sv_last as NoSave
SaveIdle ==
    /\ sv_dir = {}
    /\ sv_last = [fn |-> "", stem |-> <<>>, before |-> {},
                  res |-> [dir |-> {}, path |-> <<>>, raised |-> FALSE,
                           blocked |-> FALSE]]
    /\ sv_count = 0

PullIdle ==
    /\ pull_pc = "idle"
    /\ pull_adt_done = FALSE
    /\ pull_hhri_done = FALSE
    /\ pull_saved = <<>>
    /\ pull_mails = 0
    /\ pull_runs = 0

MoveIdle ==
    /\ mv_pc = "idle"
    /\ mv_retries = 0
    /\ mv_i = 0
    /\ mv_files = [src |-> "", tmp |-> "", dest |-> ""]
    /\ mv_locked = FALSE
    /\ mv_tries = <<>>
    /\ mv_slept = <<>>

WriteIdle ==
    /\ wr_fn = ""
    /\ wr_pc = "idle"
    /\ wr_files = [tmp |-> "", dest |-> ""]
    /\ wr_locked = FALSE
    /\ wr_tries = <<>>
    /\ wr_count = 0

ReadIdle ==
    /\ rd_reader = ""
    /\ rd_bytes = <<>>
    /\ rd_out = [kind |-> "none", enc |-> "", lossy |-> FALSE]

HeaderIdle ==
    /\ hd_call = 0
    /\ hd_records = <<>>
    /\ hd_clean = [header |-> <<"<absent>">>, rows |-> <<>>]
    /\ hd_out = [kind |-> "none", hdr_idx |-> -1]

TransformIdle ==
    /\ tf_header = <<>>
    /\ tf_rows = <<>>
    /\ tf_mapping = <<>>
    /\ tf_renamed = [returned |-> FALSE, given |-> <<>>, header |-> <<>>]
    /\ tf_out = [returned |-> FALSE, header |-> <<>>, rows |-> <<>>]

PipelineIdle ==
    /\ app_running = FALSE
    /\ app_q = <<>>
    /\ btn_run = TRUE
    /\ ui_status = <<>>
    /\ ui_progress = FALSE
    /\ ui_log = <<>>
    /\ workers = <<>>

DatesIdle ==
    /\ today = [year |-> 0, month |-> 0, day |-> 0]
    /\ TODAY = <<>>
    /\ START_DATE = <<>>
    /\ form_dates = [start |-> <<>>, end |-> <<>>]

RestIdle ==
    /\ FilterIdle
    /\ ClassifyIdle
    /\ SaveIdle
    /\ PullIdle
    /\ MoveIdle
    /\ WriteIdle
    /\ ReadIdle
    /\ HeaderIdle
    /\ TransformIdle
    /\ PipelineIdle
    /\ DatesIdle

Init ==
    /\ clean \in InitClean
    /\ tmpf = EmptyDir
    /\ raw \in InitRaw
    /\ pc = "idle"
    /\ main_path = NoPath
    /\ out_path = NoPath
    /\ write_as_xlsx = FALSE
    /\ combined = <<>>
    /\ outcome = "none"
    /\ hist = <<>>
    /\ pre_clean = EmptyDir
    /\ TreatIdle
    /\ RestIdle

Next ==
    \/ Load
    \/ WriteTmp
    \/ WriteTmpRejected
    \/ WriteTmpFails
    \/ RemoveFinal
    \/ RemoveFinalFails
    \/ Replace
    \/ ReplaceFails
    \/ Stop

Spec == Init /\ [][Next]_vars

TypeOK == pc \in {"idle", "write_tmp", "remove_final", "replace"}

----------------------------------------------------------------------------
(* Treat_Data_Cleaning: strings *)

MaxTreatRows == 2    \* data rows of the Treat raw exports

TEST_IDS == {"1", "10314", "12675", "7941", "7942", "9383", "9384", "11633", "8239"}

\* the ID cells the raw exports of the model carry: a padded test identifier,
\* a client identifier, a blank cell
IdPool == {"1 ", "5", ""}

\* str.strip() on the strings of the model
Strip(x) ==
    CASE x = "1 " -> "1"
      [] x = " 1" -> "1"
      [] x = " ID " -> "ID"
      [] x = "Ann (1) " -> "Ann (1)"
      [] OTHER -> x

\* str.lower() on the strings of the model
Lower(x) ==
    CASE x = "ID" -> "id"
      [] x = "Id" -> "id"
      [] x = "MRN" -> "mrn"
      [] x = "Name" -> "name"
      [] x = "NewAdmissionstoOrg" -> "newadmissionstoorg"
      [] x = "DischargedfromOrg" -> "dischargedfromorg"
      [] x = "ClientsActiveinOrg" -> "clientsactiveinorg"
      [] x = "Lead_Health_Home" -> "lead_health_home"
      [] x = "ClientName" -> "clientname"
      [] x = "Staff" -> "staff"
      [] x = "AddtionalAddressType" -> "addtionaladdresstype"
      [] x = "AdditionalAddressType" -> "additionaladdresstype"
      [] x = "SSN" -> "ssn"
      [] x = "__EXTRACTED_ID__" -> "__extracted_id__"
      [] x = "ClaimID" -> "claimid"
      [] x = "Program" -> "program"
      [] x = "FCC" -> "fcc"
      [] x = "Textbox1" -> "textbox1"
      [] x = "Textbox2" -> "textbox2"
      [] OTHER -> x

\* re.search(r"\((\d+)\)\s*$", txt): the trailing parenthesized digits
ExtractedId(txt) ==
    CASE txt = "Ann (1)" -> "1"
      [] txt = "Bob (5)" -> "5"
      [] OTHER -> ""

\* re.sub(r"\s*\(\d+\)\s*$", "", txt).strip()
NameWithoutId(txt) ==
    CASE txt = "Ann (1)" -> "Ann"
      [] txt = "Bob (5)" -> "Bob"
      [] OTHER -> txt

----------------------------------------------------------------------------
(* Treat_Data_Cleaning: header and row helpers *)

\* first index of the header whose trimmed lower-cased name is key, 0 if none
\* (_case_index(header).get(key))
_case_index(header, key) ==
    LET hits == { i \in 1..Len(header) : Lower(Strip(header[i])) = key }
    IN  IF key = "" \/ hits = {} THEN 0
        ELSE CHOOSE i \in hits : \A j \in hits : i <= j

\* mapping_ci is a sequence of <<old, new>> in dict order: first match wins
_rename_header_ci(header, mapping_ci) ==
    [i \in 1..Len(header) |->
        LET hits == { k \in 1..Len(mapping_ci) :
                        Lower(Strip(header[i])) = Lower(mapping_ci[k][1]) }
        IN  IF hits = {} THEN header[i]
            ELSE mapping_ci[CHOOSE k \in hits : \A j \in hits : k <= j][2]]

\* keep_idxs of _drop_cols_ci
KeepIdxs(header, drop_list) ==
    LET drops == { Lower(d) : d \in drop_list }
        F[i \in 0..Len(header)] ==
            IF i = 0 THEN <<>>
            ELSE IF Lower(Strip(header[i])) \in drops THEN F[i-1]
                 ELSE Append(F[i-1], i)
    IN  F[Len(header)]

_project_header(header, keep_idxs) ==
    [k \in 1..Len(keep_idxs) |-> header[keep_idxs[k]]]

_project_rows(rows, keep_idxs) ==
    [r \in 1..Len(rows) |->
        [k \in 1..Len(keep_idxs) |->
            IF keep_idxs[k] <= Len(rows[r]) THEN rows[r][keep_idxs[k]] ELSE ""]]

Table(header, rows) == [header |-> header, rows |-> rows]

\* the filter comparing the cell as it stands, without strip()
_filter_out_test_ids_Untrimmed(header, rows, id_col_name) ==
    LET i == _case_index(header, Lower(id_col_name))
    IN  IF i = 0 THEN Table(header, rows)
        ELSE Table(header,
                   SelectSeq(rows, LAMBDA r :
                       (IF i <= Len(r) THEN r[i] ELSE "") \notin TEST_IDS))

_filter_out_test_ids(header, rows, id_col_name) ==
    LET i == _case_index(header, Lower(id_col_name))
    IN  IF i = 0 THEN Table(header, rows)
        ELSE Table(header,
                   SelectSeq(rows, LAMBDA r :
                       Strip(IF i <= Len(r) THEN r[i] ELSE "") \notin TEST_IDS))

_adtcensuscan_transform(header, rows) ==
    LET h1   == _rename_header_ci(header, << <<"textbox2", "Staff">>,
                                              <<"patient", "ClientName">> >>)
        keep == KeepIdxs(h1, {"NewAdmissionstoOrg", "DischargedfromOrg",
                              "ClientsActiveinOrg", "Lead_Health_Home"})
    IN  _filter_out_test_ids(_project_header(h1, keep), _project_rows(rows, keep), "ID")

_rpt_census_transform(header, rows) ==
    LET keep == KeepIdxs(header, {"AddtionalAddressType", "AdditionalAddressType",
                                  "HealthNumberOrMedicaid", "ProvinceLabel",
                                  "AddProvinceLabel", "SSN", "Site",
                                  "LastClaimDate", "LastClaimD", "LastClaimDt"})
    IN  _filter_out_test_ids(_project_header(header, keep), _project_rows(rows, keep), "ID")

\* the extraction loop of _rpt_progstafffinance_transform for one row
ExtractRow(r, i_client) ==
    LET txt    == Strip(IF i_client <= Len(r) THEN r[i_client] ELSE "")
        padded == IF i_client > Len(r)
                  THEN r \o [k \in 1..(i_client - Len(r)) |-> ""] ELSE r
    IN  Append([padded EXCEPT ![i_client] = NameWithoutId(txt)], ExtractedId(txt))

_rpt_progstafffinance_transform(header, rows) ==
    LET i_client == _case_index(header, "textbox55")
        rows1 == IF i_client = 0 THEN rows
                 ELSE [r \in 1..Len(rows) |-> ExtractRow(rows[r], i_client)]
        h0   == IF i_client = 0 THEN header ELSE Append(header, "__EXTRACTED_ID__")
        h1   == _rename_header_ci(h0, << <<"textbox55", "ClientName">>,
                                         <<"__EXTRACTED_ID__", "ID">>,
                                         <<"textbox57", "Interaction Start Date">>,
                                         <<"textbox101", "Start Time">>,
                                         <<"textbox102", "End Time">>,
                                         <<"textbox37", "Staff">>,
                                         <<"textbox96", "Task">>,
                                         <<"textbox60", "Program">>,
                                         <<"textbox32", "Visit Type">>,
                                         <<"textbox50", "Note Date">> >>)
        keep == KeepIdxs(h1, {"textbox92", "ClaimID"})
    IN  _filter_out_test_ids(_project_header(h1, keep), _project_rows(rows1, keep), "ID")

MisTarget == <<"Program", "FCC", "MIS Code", "Description", "Apr", "May", "June",
               "Q1", "July", "Aug", "Sep", "Q2", "Oct", "Nov", "Dec", "Q3",
               "Jan", "Feb", "Mar", "Apr_2", "Q4">>

_rpt_mis_stats_transform(header, rows) ==
    LET h1 == _rename_header_ci(header, << <<"textbox55", "Program">>,
                                           <<"textbox24", "FCC">>,
                                           <<"textbox21", "MIS Code">>,
                                           <<"textbox18", "Description">>,
                                           <<"textbox15", "Apr">>,
                                           <<"textbox9", "May">>,
                                           <<"textbox12", "June">>,
                                           <<"textbox30", "Q1">>,
                                           <<"textbox2", "July">>,
                                           <<"textbox3", "Aug">>,
                                           <<"textbox4", "Sep">>,
                                           <<"textbox5", "Q2">>,
                                           <<"textbox6", "Oct">>,
                                           <<"textbox7", "Nov">>,
                                           <<"textbox8", "Dec">>,
                                           <<"textbox10", "Q3">>,
                                           <<"textbox11", "Jan">>,
                                           <<"textbox13", "Feb">>,
                                           <<"textbox16", "Mar">>,
                                           <<"textbox17", "Q4">>,
                                           <<"textbox19", "Total">> >>)
        present == SelectSeq(MisTarget, LAMBDA t : _case_index(h1, Lower(t)) # 0)
        keep == [k \in 1..Len(present) |-> _case_index(h1, Lower(present[k]))]
    IN  Table(present, _project_rows(rows, keep))

Transform(name, header, rows) ==
    CASE name = "adtcensuscan" -> _adtcensuscan_transform(header, rows)
      [] name = "census" -> _rpt_census_transform(header, rows)
      [] name = "mis_stats" -> _rpt_mis_stats_transform(header, rows)
      [] name = "progstafffinance" -> _rpt_progstafffinance_transform(header, rows)
      [] OTHER -> Table(header, rows)

----------------------------------------------------------------------------
(* Treat_Data_Cleaning: the raw exports of the model *)

NoTable == [header |-> <<"<absent>">>, rows |-> <<>>]

\* "n in a" for the first cells and needles of the model
Contains(a, n) ==
    a = n \/ <<a, n>> \in { <<"textbox121", "textbox1">>, <<"textbox15", "textbox1">> }

SourceHeader(stem) ==
    CASE stem = "ADTCensusCAN" -> <<"NewAdmissionstoOrg", "ID", "patient">>
      [] stem = "RECONNECTWORKProofingByClinician" -> <<"textbox121", "textbox5">>
      [] stem = "rpt_Census" -> <<"AddtionalAddressType", "ID", "SSN">>
      [] stem = "rpt_MIS_Stats" -> <<"textbox1", "textbox55", "textbox24">>
      [] stem = "rpt_ProgStaffFinance" -> <<"textbox55", "textbox37">>
      [] OTHER -> <<"Textbox1", "Textbox2">>

\* the text of a "Name (ID)" cell of rpt_ProgStaffFinance
NameAndId(id) ==
    CASE id = "1 " -> "Ann (1) "
      [] id = "5" -> "Bob (5)"
      [] OTHER -> "Cy"

SourceRow(stem, id) ==
    CASE stem = "ADTCensusCAN" -> <<"0", id, "n">>
      [] stem = "RECONNECTWORKProofingByClinician" -> <<"c", "n">>
      [] stem = "rpt_Census" -> <<"home", id, "000">>
      [] stem = "rpt_MIS_Stats" -> <<"t", "P", "F">>
      [] stem = "rpt_ProgStaffFinance" -> <<NameAndId(id), "s">>
      [] OTHER -> <<"r", "n">>

\* The records of a raw export: a report banner, the header record, one data
\* record per client.  An export without the marker has another first header
\* cell; an export without any delimiter character has one cell per record.
SourceRecords(stem, ids, f) ==
    LET hdr  == IF f.marker THEN SourceHeader(stem)
                ELSE [SourceHeader(stem) EXCEPT ![1] = "Report"]
        recs == <<<<"Report">>>> \o <<hdr>> \o
                [k \in 1..Len(ids) |-> SourceRow(stem, ids[k])]
    IN  IF f.sniffs \/ f.delims THEN recs
        ELSE [k \in 1..Len(recs) |-> <<recs[k][1]>>]

CsvSources == [sniffs : BOOLEAN, delims : BOOLEAN, tail_decodes : BOOLEAN,
               marker : BOOLEAN]

\* _detect_delimiter: the sniffer's answer; when the sniffer raises, line 42
\* evaluates counts.get(d, 0) with d unbound whenever some candidate
\* delimiter occurs in the sample, and returns "," when none does
_detect_delimiter(f) ==
    IF f.sniffs THEN ","
    ELSE IF f.delims THEN "NameError"
    ELSE ","

\* the header search with the last matching record taken
_find_header_row_by_colA_Last(records, needles) ==
    LET hits == { i \in 1..Len(records) :
                    /\ records[i] # <<>>
                    /\ \E n \in needles :
                          Contains(Lower(Strip(records[i][1])), Lower(n)) }
    IN  IF hits = {} THEN -1
        ELSE (CHOOSE i \in hits : \A j \in hits : j <= i) - 1

\* _find_header_row_by_colA: zero-based index, -1 for None
_find_header_row_by_colA(records, needles) ==
    LET hits == { i \in 1..Len(records) :
                    /\ records[i] # <<>>
                    /\ \E n \in needles :
                          Contains(Lower(Strip(records[i][1])), Lower(n)) }
    IN  IF hits = {} THEN -1
        ELSE (CHOOSE i \in hits : \A j \in hits : i <= j) - 1

\* _read_after_header
_read_after_header(records, header_row_idx) ==
    Table(records[header_row_idx + 1],
          SubSeq(records, header_row_idx + 2, Len(records)))

\* process_file after the source was found: "return" (nothing written),
\* "raise" (the exception leaves process_file), or the table written
process_file(call, stem, ids, f, dest_locked) ==
    LET delim   == _detect_delimiter(f)
        records == SourceRecords(stem, ids, f)
        hdr_idx == _find_header_row_by_colA(records, call.needles)
        read    == _read_after_header(records, hdr_idx)
        out     == Transform(call.transform, read.header, read.rows)
    IN  IF delim = "NameError" THEN [kind |-> "raise", table |-> NoTable]
        ELSE IF ~f.tail_decodes THEN [kind |-> "raise", table |-> NoTable]
        ELSE IF hdr_idx = -1 THEN [kind |-> "return", table |-> NoTable]
        ELSE IF dest_locked THEN [kind |-> "raise", table |-> NoTable]
        ELSE [kind |-> "written", table |-> out]

----------------------------------------------------------------------------
(* Treat_Data_Cleaning: Excel flows *)

ExcelSources == [readable : BOOLEAN, marker : BOOLEAN]

\* pd.read_excel(header=None, dtype=str): a banner row, the header row, one
\* row per client; "" is an empty cell (NaN)
ExcelRaw(ids, f) ==
    << <<"Report", "">> >> \o
    << IF f.marker THEN <<"MRN", "Name">> ELSE <<"Client", "Name">> >> \o
    [k \in 1..Len(ids) |-> <<ids[k], "n">>]

\* astype(str) of a cell: NaN prints as "nan"
AsStr(c) == IF c = "" THEN "nan" ELSE c

\* _detect_header_row_excel: zero-based
_detect_header_row_excel(df, needles) ==
    LET target == { Lower(Strip(n)) : n \in needles }
        hits   == { i \in 1..Len(df) :
                      \E j \in 1..Len(df[i]) : Lower(Strip(AsStr(df[i][j]))) \in target }
        filled == { i \in 1..Len(df) : \E j \in 1..Len(df[i]) : df[i][j] # "" }
        First(S) == CHOOSE i \in S : \A j \in S : i <= j
    IN  IF hits # {} THEN First(hits) - 1
        ELSE IF filled # {} THEN First(filled) - 1
        ELSE 0

\* _materialize_from_header_excel: columns from the header row, the rows
\* below it, rows with every cell empty dropped
_materialize_from_header_excel(df_raw, header_row) ==
    Table([j \in 1..Len(df_raw[header_row + 1]) |->
                Strip(AsStr(df_raw[header_row + 1][j]))],
          SelectSeq(SubSeq(df_raw, header_row + 2, Len(df_raw)),
                    LAMBDA r : \E j \in 1..Len(r) : r[j] # ""))

\* DataFrame.ffill(): an empty cell takes the last non-empty value above it
_filldown_all_df(t) ==
    LET F[r \in 0..Len(t.rows)] ==
            IF r = 0 THEN <<>>
            ELSE Append(F[r-1],
                        [j \in 1..Len(t.rows[r]) |->
                            IF t.rows[r][j] = "" /\ r > 1
                            THEN F[r-1][r-1][j] ELSE t.rows[r][j]])
    IN  Table(t.header, F[Len(t.rows)])

_rename_mrn_to_id_df(t) ==
    Table([j \in 1..Len(t.header) |->
              IF Lower(Strip(t.header[j])) = "mrn" THEN "ID" ELSE t.header[j]],
          t.rows)

\* the body of process_excel's try block; every exception is caught
process_excel(call, ids, f, dest_locked) ==
    LET df_raw == ExcelRaw(ids, f)
        hdr    == _detect_header_row_excel(df_raw, call.needles)
        df     == _materialize_from_header_excel(df_raw, hdr)
        filled == IF call.filldown THEN _filldown_all_df(df) ELSE df
        out    == _rename_mrn_to_id_df(filled)
    IN  IF ~f.readable \/ dest_locked THEN [kind |-> "return", table |-> NoTable]
        ELSE [kind |-> "written", table |-> out]

----------------------------------------------------------------------------
(* Treat_Data_Cleaning.run() *)

\* stems: the stems tried in order, the first one found is processed
FileCall(stems, needles, transform, dest) ==
    [kind |-> "file", stems |-> stems, needles |-> needles, transform |-> transform,
     dest |-> dest, filldown |-> FALSE]

ExcelCall(prefix, dest, filldown) ==
    [kind |-> "excel", stems |-> <<prefix>>, needles |-> {"MRN"},
     transform |-> "none", dest |-> dest, filldown |-> filldown]

\* the fixed sequence of calls of run(); the sixth is the for/else loop over
\* the two stems of the wait-listed referrals, saved under one fixed name
TreatCalls == <<
    FileCall(<<"ADTCensusCAN">>, {"NewAdmissionstoOrg"}, "adtcensuscan",
             "ADTCensusCAN.csv"),
    FileCall(<<"RECONNECTWORKProofingByClinician">>, {"textbox121"}, "none",
             "RECONNECTWORKProofingByClinician.csv"),
    FileCall(<<"rpt_Census">>, {"AddtionalAddressType", "AdditionalAddressType"},
             "census", "rpt_Census.csv"),
    FileCall(<<"rpt_MIS_Stats">>, {"textbox1"}, "mis_stats", "rpt_MIS_Stats.csv"),
    FileCall(<<"rpt_ProgStaffFinance">>, {"textbox55"}, "progstafffinance",
             "rpt_ProgStaffFinance.csv"),
    FileCall(<<"rpt_Referrals_DT (1)", "rpt_Referrals_DT_waitlisted">>, {"Textbox1"},
             "none", "rpt_Referrals_DT_waitlisted.csv"),
    FileCall(<<"rpt_Referrals_DT">>, {"Textbox1"}, "none", "rpt_Referrals_DT.csv"),
    ExcelCall("Assessment", "Assessment.csv", TRUE),
    ExcelCall("Demographics", "Demographics.csv", FALSE),
    ExcelCall("External_Documents_Report", "External_Documents_Report.csv", TRUE) >>

NumCalls == Len(TreatCalls)

TreatDests == { TreatCalls[k].dest : k \in 1..NumCalls }

\* what happens to run() when a call of its sequence ends in res
AfterCall(res) ==
    IF res.kind = "raise"
    THEN /\ treat_outcome' = "raised"
         /\ treat_pc' = 0
         /\ UNCHANGED treat_clean
    ELSE /\ treat_outcome' = IF treat_pc = NumCalls THEN "returned" ELSE "running"
         /\ treat_pc' = IF treat_pc = NumCalls THEN 0 ELSE treat_pc + 1
         /\ treat_clean' = IF res.kind = "written"
                           THEN [treat_clean EXCEPT ![TreatCalls[treat_pc].dest] = res.table]
                           ELSE treat_clean

\* _find_src_by_stem over the stems of a call: the first stem with a file
FirstFound(stems, found) ==
    stems[CHOOSE i \in 1..Len(stems) :
            /\ stems[i] \in found
            /\ \A j \in 1..(i-1) : stems[j] \notin found]

\* lines 360-361: the raw folder does not exist
RawFolderMissing ==
    /\ treat_pc = 1
    /\ treat_outcome = "running"
    /\ treat_outcome' = "no_raw_folder"
    /\ treat_pc' = 0
    /\ UNCHANGED <<treat_ids, treat_clean, treat_made, mergeVars, restVars>>

\* one process_file call of run(): the source is not found ([SKIP]), or it is
\* processed
ProcessFileCall ==
    /\ treat_pc \in 1..NumCalls
    /\ TreatCalls[treat_pc].kind = "file"
    /\ treat_made' = treat_made + 1
    /\ \E found \in SUBSET Range(TreatCalls[treat_pc].stems),
          f \in CsvSources, dest_locked \in BOOLEAN :
          AfterCall(IF found # {}
                    THEN process_file(TreatCalls[treat_pc],
                                      FirstFound(TreatCalls[treat_pc].stems, found),
                                      treat_ids, f, dest_locked)
                    ELSE [kind |-> "return", table |-> NoTable])
    /\ UNCHANGED <<treat_ids, mergeVars, restVars>>

\* one process_excel call of run()
ProcessExcelCall ==
    /\ treat_pc \in 1..NumCalls
    /\ TreatCalls[treat_pc].kind = "excel"
    /\ treat_made' = treat_made + 1
    /\ \E found \in BOOLEAN, f \in ExcelSources, dest_locked \in BOOLEAN :
          AfterCall(IF found
                    THEN process_excel(TreatCalls[treat_pc], treat_ids, f, dest_locked)
                    ELSE [kind |-> "return", table |-> NoTable])
    /\ UNCHANGED <<treat_ids, mergeVars, restVars>>

MergeIdle ==
    /\ clean = EmptyDir
    /\ tmpf = EmptyDir
    /\ raw = [n \in Range(RawNames) |-> NoFile]
    /\ pc = "idle"
    /\ main_path = NoPath
    /\ out_path = NoPath
    /\ write_as_xlsx = FALSE
    /\ combined = <<>>
    /\ outcome = "none"
    /\ hist = <<>>
    /\ pre_clean = EmptyDir

\* for each of the other programs: the programs it finds idle
ExceptFilterIdle ==
    /\ MergeIdle
    /\ TreatIdle
    /\ ClassifyIdle
    /\ SaveIdle
    /\ PullIdle
    /\ MoveIdle
    /\ WriteIdle
    /\ ReadIdle
    /\ HeaderIdle
    /\ TransformIdle
    /\ PipelineIdle
    /\ DatesIdle

ExceptClassifyIdle ==
    /\ MergeIdle
    /\ TreatIdle
    /\ FilterIdle
    /\ SaveIdle
    /\ PullIdle
    /\ MoveIdle
    /\ WriteIdle
    /\ ReadIdle
    /\ HeaderIdle
    /\ TransformIdle
    /\ PipelineIdle
    /\ DatesIdle

ExceptSaveIdle ==
    /\ MergeIdle
    /\ TreatIdle
    /\ FilterIdle
    /\ ClassifyIdle
    /\ PullIdle
    /\ MoveIdle
    /\ WriteIdle
    /\ ReadIdle
    /\ HeaderIdle
    /\ TransformIdle
    /\ PipelineIdle
    /\ DatesIdle

ExceptPullIdle ==
    /\ MergeIdle
    /\ TreatIdle
    /\ FilterIdle
    /\ ClassifyIdle
    /\ SaveIdle
    /\ MoveIdle
    /\ WriteIdle
    /\ ReadIdle
    /\ HeaderIdle
    /\ TransformIdle
    /\ PipelineIdle
    /\ DatesIdle

ExceptMoveIdle ==
    /\ MergeIdle
    /\ TreatIdle
    /\ FilterIdle
    /\ ClassifyIdle
    /\ SaveIdle
    /\ PullIdle
    /\ WriteIdle
    /\ ReadIdle
    /\ HeaderIdle
    /\ TransformIdle
    /\ PipelineIdle
    /\ DatesIdle

ExceptWriteIdle ==
    /\ MergeIdle
    /\ TreatIdle
    /\ FilterIdle
    /\ ClassifyIdle
    /\ SaveIdle
    /\ PullIdle
    /\ MoveIdle
    /\ ReadIdle
    /\ HeaderIdle
    /\ TransformIdle
    /\ PipelineIdle
    /\ DatesIdle

ExceptReadIdle ==
    /\ MergeIdle
    /\ TreatIdle
    /\ FilterIdle
    /\ ClassifyIdle
    /\ SaveIdle
    /\ PullIdle
    /\ MoveIdle
    /\ WriteIdle
    /\ HeaderIdle
    /\ TransformIdle
    /\ PipelineIdle
    /\ DatesIdle

ExceptHeaderIdle ==
    /\ MergeIdle
    /\ TreatIdle
    /\ FilterIdle
    /\ ClassifyIdle
    /\ SaveIdle
    /\ PullIdle
    /\ MoveIdle
    /\ WriteIdle
    /\ ReadIdle
    /\ TransformIdle
    /\ PipelineIdle
    /\ DatesIdle

ExceptTransformIdle ==
    /\ MergeIdle
    /\ TreatIdle
    /\ FilterIdle
    /\ ClassifyIdle
    /\ SaveIdle
    /\ PullIdle
    /\ MoveIdle
    /\ WriteIdle
    /\ ReadIdle
    /\ HeaderIdle
    /\ PipelineIdle
    /\ DatesIdle

ExceptPipelineIdle ==
    /\ MergeIdle
    /\ TreatIdle
    /\ FilterIdle
    /\ ClassifyIdle
    /\ SaveIdle
    /\ PullIdle
    /\ MoveIdle
    /\ WriteIdle
    /\ ReadIdle
    /\ HeaderIdle
    /\ TransformIdle
    /\ DatesIdle

ExceptDatesIdle ==
    /\ MergeIdle
    /\ TreatIdle
    /\ FilterIdle
    /\ ClassifyIdle
    /\ SaveIdle
    /\ PullIdle
    /\ MoveIdle
    /\ WriteIdle
    /\ ReadIdle
    /\ HeaderIdle
    /\ TransformIdle
    /\ PipelineIdle

InitTreat ==
    /\ MergeIdle
    /\ RestIdle
    /\ treat_pc = 1
    /\ treat_ids \in SeqsUpTo(IdPool, MaxTreatRows)
    /\ treat_clean = [d \in TreatDests |-> NoTable]
    /\ treat_made = 0
    /\ treat_outcome = "running"

NextTreat == RawFolderMissing \/ ProcessFileCall \/ ProcessExcelCall

SpecTreat == InitTreat /\ [][NextTreat]_vars

----------------------------------------------------------------------------
(* SpecFilter: _filter_out_test_ids on one table *)

MaxFilterRows == 2   \* rows of the table handed to _filter_out_test_ids

\* headers with the identifier column first, second, padded and in another
\* case, twice, and absent
FilterHeaders == { <<"ID", "Name">>, <<"Name", "Id">>, <<" ID ", "Name">>,
                   <<"ID", "ID">>, <<"MRN", "Name">> }

\* rows: a padded test identifier, a client, a test identifier in another
\* column only, a row shorter than the header, an empty record
FilterRowPool == { <<"1 ", "n">>, <<" 1", "5">>, <<"5", "1">>, <<"5", "n">>,
                   <<"n", "1 ">>, <<"1">>, <<"5">>, <<>> }

InitFilter ==
    /\ ExceptFilterIdle
    /\ flt_header \in FilterHeaders
    /\ flt_rows \in SeqsUpTo(FilterRowPool, MaxFilterRows)
    /\ flt_id_col \in {"ID", "Id"}
    /\ flt_out = [returned |-> FALSE, header |-> <<>>, rows |-> <<>>]

FilterCall ==
    /\ ~flt_out.returned
    /\ LET t == _filter_out_test_ids(flt_header, flt_rows, flt_id_col)
       IN  flt_out' = [returned |-> TRUE, header |-> t.header, rows |-> t.rows]
    /\ UNCHANGED <<flt_header, flt_rows, flt_id_col, exceptFilterVars>>

NextFilter == FilterCall

SpecFilter == InitFilter /\ [][NextFilter]_vars

----------------------------------------------------------------------------
(* AlayaCare_Pulling: file names and the type detectors                    *)
(*                                                                         *)
(* A file name is the sequence of its characters, so that strip(), lower(),*)
(* startswith, "in" and the regular expressions are computed on the text.  *)

UpperLetters == <<"A", "B", "C", "D", "E", "F", "G", "H", "I", "J", "K", "L", "M", "N", "O", "P", "Q", "R", "S", "T", "U", "V", "W", "X", "Y", "Z">>
LowerLetters == <<"a", "b", "c", "d", "e", "f", "g", "h", "i", "j", "k", "l", "m", "n", "o", "p", "q", "r", "s", "t", "u", "v", "w", "x", "y", "z">>
Digits == {"0", "1", "2", "3", "4", "5", "6", "7", "8", "9"}

IsSpace(c) == c \in {" ", "\t"}

\* \w of the regular expressions: letters, digits and the underscore
WordChars ==
    { UpperLetters[i] : i \in 1..26 } \cup { LowerLetters[i] : i \in 1..26 }
        \cup Digits \cup {"_"}

IsWordChar(c) == c \in WordChars

\* the lower-case letter of every upper-case letter
LowerOf ==
    ("A" :> "a") @@ ("B" :> "b") @@ ("C" :> "c") @@ ("D" :> "d") @@
    ("E" :> "e") @@ ("F" :> "f") @@ ("G" :> "g") @@ ("H" :> "h") @@
    ("I" :> "i") @@ ("J" :> "j") @@ ("K" :> "k") @@ ("L" :> "l") @@
    ("M" :> "m") @@ ("N" :> "n") @@ ("O" :> "o") @@ ("P" :> "p") @@
    ("Q" :> "q") @@ ("R" :> "r") @@ ("S" :> "s") @@ ("T" :> "t") @@
    ("U" :> "u") @@ ("V" :> "v") @@ ("W" :> "w") @@ ("X" :> "x") @@
    ("Y" :> "y") @@ ("Z" :> "z")

LowerChar(c) == IF c \in DOMAIN LowerOf THEN LowerOf[c] ELSE c

\* str.lower()
LowerName(n) == [i \in 1..Len(n) |-> LowerChar(n[i])]

\* str.strip()
StripName(n) ==
    LET keep == { i \in 1..Len(n) : ~IsSpace(n[i]) }
    IN  IF keep = {} THEN <<>>
        ELSE SubSeq(n, CHOOSE i \in keep : \A j \in keep : i <= j,
                       CHOOSE i \in keep : \A j \in keep : j <= i)

\* s[pos:].startswith(w), pos one-based
HasAt(s, pos, w) ==
    /\ pos >= 1
    /\ pos + Len(w) - 1 <= Len(s)
    /\ \A k \in 1..Len(w) : s[pos + k - 1] = w[k]

\* w in s
InName(w, s) == \E pos \in 1..(Len(s) + 1) : HasAt(s, pos, w)

\* the positions the scan can stand at after [\s_-]* started at pos
AfterSeparators(s, pos) ==
    { q \in pos..(Len(s) + 1) :
        \A k \in pos..(q - 1) : IsSpace(s[k]) \/ s[k] \in {"_", "-"} }

\* the positions the scan can stand at after \s* started at pos
AfterSpaces(s, pos) ==
    { q \in pos..(Len(s) + 1) : \A k \in pos..(q - 1) : IsSpace(s[k]) }

\* (\b|[_-]) at pos, the character before pos being a letter
BoundaryOrJoiner(s, pos) ==
    \/ pos > Len(s)
    \/ ~IsWordChar(s[pos])
    \/ s[pos] \in {"_", "-"}

\* \b at pos, the character before pos being a letter
WordBoundary(s, pos) == pos > Len(s) \/ ~IsWordChar(s[pos])

_lname(fn) == LowerName(StripName(fn))

is_adt_candidate(filename) ==
    LET n == _lname(filename)
    IN  \/ HasAt(n, 1, <<"a", "d", "t">>)
        \/ InName(<<" ", "a", "d", "t">>, n)
        \/ InName(<<"_", "a", "d", "t">>, n)

looks_like_zone_reference(filename) ==
    LET n == _lname(filename)
    IN  InName(<<"z", "o", "n", "e">>, n) /\ InName(<<"r", "e", "f", "e", "r", "e", "n", "c", "e">>, n)

is_form_report(filename) ==
    LET n == _lname(filename)
    IN  InName(<<"f", "o", "r", "m">>, n) /\ InName(<<"r", "e", "p", "o", "r", "t">>, n)

is_note_report(filename) ==
    LET n == _lname(filename)
    IN  \/ HasAt(n, 1, <<"n", "o", "t", "e">>)
        \/ InName(<<" ", "n", "o", "t", "e">>, n)
        \/ InName(<<"n", "o", "t", "e", "s">>, n)

is_visits_report(filename) ==
    LET n == _lname(filename)
    IN  \/ HasAt(n, 1, <<"v", "i", "s", "i", "t", "s">>)
        \/ InName(<<" ", "v", "i", "s", "i", "t", "s">>, n)
        \/ InName(<<"v", "i", "s", "i", "t", " ">>, n)
        \/ InName(<<" ", "v", "i", "s", "i", "t", ".">>, n)

\* ^client[\s_-]*calls\b, IGNORECASE
_CLIENT_CALLS_RE(n) ==
    LET s == LowerName(n)
    IN  /\ HasAt(s, 1, <<"c", "l", "i", "e", "n", "t">>)
        /\ \E q \in AfterSeparators(s, 7) :
              /\ HasAt(s, q, <<"c", "a", "l", "l", "s">>)
              /\ WordBoundary(s, q + 5)

is_client_calls_report(filename) == _CLIENT_CALLS_RE(StripName(filename))

\* ^cm[\s_-]*supervisors(\b|[_-]), IGNORECASE
_CM_SUP_RE(n) ==
    LET s == LowerName(n)
    IN  /\ HasAt(s, 1, <<"c", "m">>)
        /\ \E q \in AfterSeparators(s, 3) :
              /\ HasAt(s, q, <<"s", "u", "p", "e", "r", "v", "i", "s", "o", "r", "s">>)
              /\ BoundaryOrJoiner(s, q + 11)

\* ^cm[\s_-]*supervisors[\s_-]*discharged(\b|[_-]), IGNORECASE
_CM_SUP_DISCH_RE(n) ==
    LET s == LowerName(n)
    IN  /\ HasAt(s, 1, <<"c", "m">>)
        /\ \E q \in AfterSeparators(s, 3) :
              /\ HasAt(s, q, <<"s", "u", "p", "e", "r", "v", "i", "s", "o", "r", "s">>)
              /\ \E r \in AfterSeparators(s, q + 11) :
                    /\ HasAt(s, r, <<"d", "i", "s", "c", "h", "a", "r", "g", "e", "d">>)
                    /\ BoundaryOrJoiner(s, r + 10)

\* the parent rule without its exclusion of the discharged names
is_cm_supervisors_report_ParentOnly(filename) ==
    _CM_SUP_RE(StripName(filename))

is_cm_supervisors_report(filename) ==
    LET n == StripName(filename)
    IN  _CM_SUP_RE(n) /\ ~_CM_SUP_DISCH_RE(n)

is_cm_supervisors_discharged_report(filename) ==
    _CM_SUP_DISCH_RE(StripName(filename))

\* ^hhri[\s_-]*\(?\s*vha\s*\)?, IGNORECASE: the optional tail always matches
_HHRI_VHA_RE(n) ==
    LET s == LowerName(n)
    IN  /\ HasAt(s, 1, <<"h", "h", "r", "i">>)
        /\ \E q \in AfterSeparators(s, 5) :
              \E p \in {q} \cup (IF HasAt(s, q, <<"(">>) THEN {q + 1} ELSE {}) :
                  \E v \in AfterSpaces(s, p) : HasAt(s, v, <<"v", "h", "a">>)

is_hhri_vha_report(filename) == _HHRI_VHA_RE(StripName(filename))

\* main, lines 240-289: the dataset one attachment of the per-attachment loop
\* is saved as, "" when no branch saves it
Classify(att_name, adt_done, hhri_done) ==
    LET fn == StripName(att_name)
    IN  IF fn = <<>> THEN ""
        ELSE IF adt_done /\ is_adt_candidate(fn) THEN ""
        ELSE IF ~hhri_done /\ is_hhri_vha_report(fn) THEN "HHRI(VHA)"
        ELSE IF is_cm_supervisors_report(fn) THEN "CM_Supervisors"
        ELSE IF is_cm_supervisors_discharged_report(fn)
             THEN "CM_Supervisors_Discharged"
        ELSE IF is_form_report(fn) THEN "Form Report"
        ELSE IF is_note_report(fn) THEN "Note"
        ELSE IF is_visits_report(fn) THEN "Visits"
        ELSE IF is_client_calls_report(fn) THEN "Client Calls"
        ELSE ""

----------------------------------------------------------------------------
(* SpecClassify: the per-attachment branch of main on one file name *)

\* file names put together from a first word, a separator, "Supervisors", a
\* separator, a third word and an ending
NameFirsts == { <<"C", "M">>, <<"c", "m">>, <<" ", "C", "m">>, <<"x", "C", "M">> }
NameSeparators == { <<>>, <<"_">>, <<" ">>, <<"-">> }
NameSecond == <<"S", "u", "p", "e", "r", "v", "i", "s", "o", "r", "s">>
NameThirds == { <<>>, <<"D", "i", "s", "c", "h", "a", "r", "g", "e", "d">>, <<"d", "i", "s", "c", "h", "a", "r", "g", "e", "d">>, <<"D", "i", "s", "c", "h", "a", "r", "g", "e", "d", "x">>, <<"R", "e", "p", "o", "r", "t">> }
NameEndings == { <<".", "c", "s", "v">>, <<"_", "1", ".", "c", "s", "v">>, <<" ", "1", ".", "c", "s", "v">>, <<"x", ".", "c", "s", "v">>, <<"_", "a", "d", "t", ".", "c", "s", "v", " ">> }

ClassifyNames ==
    { a \o s1 \o NameSecond \o s2 \o c \o e :
        a \in NameFirsts, s1 \in NameSeparators, s2 \in NameSeparators,
        c \in NameThirds, e \in NameEndings }

InitClassify ==
    /\ ExceptClassifyIdle
    /\ cls_name \in ClassifyNames
    /\ cls_adt_done \in BOOLEAN
    /\ cls_hhri_done \in BOOLEAN
    /\ cls_out = [returned |-> FALSE, dataset |-> ""]

ClassifyCall ==
    /\ ~cls_out.returned
    /\ cls_out' = [returned |-> TRUE,
                   dataset |-> Classify(cls_name, cls_adt_done, cls_hhri_done)]
    /\ UNCHANGED <<cls_name, cls_adt_done, cls_hhri_done, exceptClassifyVars>>

NextClassify == ClassifyCall

SpecClassify == InitClassify /\ [][NextClassify]_vars

----------------------------------------------------------------------------
(* AlayaCare_Pulling: the save helpers                                     *)
(*                                                                         *)
(* A destination directory is a set of files [name, locked, content]: name *)
(* the characters of the file name, locked whether another process holds   *)
(* the file open (os.remove raises PermissionError), content what it holds.*)

DirFile(name, locked, content) ==
    [name |-> name, locked |-> locked, content |-> content]

\* get_ext_from_attachment: os.path.splitext(fn)[1], ".dat" when it is empty
get_ext_from_attachment(fn) ==
    LET dots == { i \in 1..Len(fn) : fn[i] = "." }
        last == CHOOSE i \in dots : \A j \in dots : j <= i
    IN  IF dots = {} \/ (\A k \in 1..(last - 1) : fn[k] = ".")
        THEN <<".", "d", "a", "t">>
        ELSE SubSeq(fn, last, Len(fn))

\* sanitize_filename: re.sub(r'[<>:"/\\|?*]', "_", name)
sanitize_filename(name) ==
    [i \in 1..Len(name) |->
        IF name[i] \in {"<", ">", ":", "\"", "/", "\\", "|", "?", "*"}
        THEN "_" ELSE name[i]]

\* glob of "{stem}.*": the names that are stem, a dot and anything; glob
\* compares names case-insensitively on the platform of win32com
MatchesStemDot(stem, name) ==
    HasAt(LowerName(name), 1, LowerName(stem) \o <<".">>)

\* glob of "{stem}_*.*": stem, an underscore, anything, a dot, anything
MatchesStemQualified(stem, name) ==
    /\ HasAt(LowerName(name), 1, LowerName(stem) \o <<"_">>)
    /\ \E i \in (Len(stem) + 2)..Len(name) : name[i] = "."

\* the first pattern only
ExistingByStem_UndatedOnly(dir, stem) ==
    { f \in dir : MatchesStemDot(stem, f.name) }

\* the files the two patterns of remove_existing_by_stem list
ExistingByStem(dir, stem) ==
    { f \in dir : MatchesStemDot(stem, f.name)
                  \/ MatchesStemQualified(stem, f.name) }

\* remove_existing_by_stem: a listed file is removed; on PermissionError it
\* is renamed to <name>.bak, and stays where it is when the rename fails too.
\* renamed: the locked listed files whose rename succeeds.
remove_existing_by_stem(dir, stem, renamed) ==
    LET listed == ExistingByStem(dir, stem)
        baks == { DirFile(f.name \o <<".", "b", "a", "k">>, f.locked, f.content) :
                    f \in renamed }
        gone == { f \in listed : ~f.locked } \cup renamed
    IN  { f \in dir \ gone : \A b \in baks : b.name # f.name } \cup baks

\* the renames that can succeed
Renamable(dir, stem) == SUBSET { f \in ExistingByStem(dir, stem) : f.locked }

\* how att.SaveAsFile(dest_path) ends: "ok", "PermissionError" or "error" (any
\* other exception).  env is how it ends on a destination that can be
\* written; a destination another process holds open cannot be written.
SaveOutcome(dir, dest_path, env) ==
    IF env = "ok" /\ \E f \in dir : f.name = dest_path /\ f.locked
    THEN "PermissionError"
    ELSE env

SaveAsFile(dir, dest_path, content) ==
    { f \in dir : f.name # dest_path } \cup {DirFile(dest_path, FALSE, content)}

\* datetime.now().strftime("%Y%m%d_%H%M%S") at the time of the fallback
Timestamp == <<"2", "0", "2", "5", "0", "1", "0", "2", "_", "0", "3", "0", "4", "0", "5">>

\* day_str of main: now.strftime("%Y-%m-%d")
DayStr == <<"2", "0", "2", "5", "-", "0", "1", "-", "0", "2">>

SaveResult(dir, path, raised, blocked) ==
    [dir |-> dir, path |-> path, raised |-> raised, blocked |-> blocked]

\* save_replace; renamed, first and second are what the environment does:
\* the renames that succeed and the outcomes of the two SaveAsFile calls
save_replace(dir, stem, att_name, content, renamed, first, second) ==
    LET cleared == remove_existing_by_stem(dir, stem, renamed)
        ext == get_ext_from_attachment(att_name)
        dest_path == sanitize_filename(stem \o ext)
        ts_path == sanitize_filename(stem \o <<"_">> \o Timestamp \o ext)
    IN  IF SaveOutcome(cleared, dest_path, first) = "ok"
        THEN SaveResult(SaveAsFile(cleared, dest_path, content), dest_path,
                        FALSE, FALSE)
        ELSE IF SaveOutcome(cleared, dest_path, first) = "PermissionError"
        THEN IF SaveOutcome(cleared, ts_path, second) = "ok"
             THEN SaveResult(SaveAsFile(cleared, ts_path, content), ts_path,
                             FALSE, TRUE)
             ELSE SaveResult(cleared, <<>>, TRUE, TRUE)
        ELSE SaveResult(cleared, <<>>, TRUE, FALSE)

\* the dated save clearing every file of the stem, whatever its date
save_dated_AllDays(dir, stem, att_name, content, day_str, renamed, first) ==
    LET dated == stem \o <<"_">> \o day_str
        ext == get_ext_from_attachment(att_name)
        cleared == remove_existing_by_stem(dir, stem, renamed)
        dest_path == sanitize_filename(dated \o ext)
    IN  IF SaveOutcome(cleared, dest_path, first) = "ok"
        THEN SaveResult(SaveAsFile(cleared, dest_path, content), dest_path,
                        FALSE, FALSE)
        ELSE SaveResult(cleared, <<>>, TRUE, FALSE)

\* save_dated_replace_same_day
save_dated_replace_same_day(dir, stem, att_name, content, day_str, renamed, first) ==
    LET dated == stem \o <<"_">> \o day_str
        ext == get_ext_from_attachment(att_name)
        cleared == remove_existing_by_stem(dir, dated, renamed)
        dest_path == sanitize_filename(dated \o ext)
    IN  IF SaveOutcome(cleared, dest_path, first) = "ok"
        THEN SaveResult(SaveAsFile(cleared, dest_path, content), dest_path,
                        FALSE, FALSE)
        ELSE SaveResult(cleared, <<>>, TRUE, FALSE)

----------------------------------------------------------------------------
(* SpecSave: save_replace and save_dated_replace_same_day on one directory *)

MaxSaves == 2        \* save calls in one behaviour

\* the stems main passes to the two helpers
ReplaceStems == { <<"C", "M", "_", "S", "u", "p", "e", "r", "v", "i", "s", "o", "r", "s">>,
                  <<"C", "M", "_", "S", "u", "p", "e", "r", "v", "i", "s", "o", "r", "s", "_", "D", "i", "s", "c", "h", "a", "r", "g", "e", "d">> }
DatedStems == { <<"N", "o", "t", "e">> }

\* the files the destination directory can hold before the first call: the
\* dataset under its fixed name, another dataset whose name continues the
\* stem, and dated files of today and of the day before
SaveFilePool == { <<"C", "M", "_", "S", "u", "p", "e", "r", "v", "i", "s", "o", "r", "s", ".", "c", "s", "v">>,
                  <<"C", "M", "_", "S", "u", "p", "e", "r", "v", "i", "s", "o", "r", "s", "_", "D", "i", "s", "c", "h", "a", "r", "g", "e", "d", ".", "x", "l", "s", "x">>,
                  <<"N", "o", "t", "e", "_", "2", "0", "2", "5", "-", "0", "1", "-", "0", "2", ".", "c", "s", "v">>,
                  <<"N", "o", "t", "e", "_", "2", "0", "2", "5", "-", "0", "1", "-", "0", "2", "_", "1", ".", "x", "l", "s", "x">>,
                  <<"N", "o", "t", "e", "_", "2", "0", "2", "5", "-", "0", "1", "-", "0", "1", ".", "c", "s", "v">> }

\* the files of the pool another process can hold open
SaveLockable == { <<"C", "M", "_", "S", "u", "p", "e", "r", "v", "i", "s", "o", "r", "s", ".", "c", "s", "v">>,
                  <<"N", "o", "t", "e", "_", "2", "0", "2", "5", "-", "0", "1", "-", "0", "2", ".", "c", "s", "v">> }

SaveFileStates(n) ==
    IF n \in SaveLockable THEN {"absent", "free", "locked"}
    ELSE {"absent", "free"}

SaveDirs ==
    { { DirFile(n, st[n] = "locked", "old") :
          n \in { m \in SaveFilePool : st[m] # "absent" } } :
        st \in { t \in [SaveFilePool -> {"absent", "free", "locked"}] :
                   \A n \in SaveFilePool : t[n] \in SaveFileStates(n) } }

\* att.FileName of the attachment saved: two extensions and none
SaveAttNames == { <<"a", ".", "c", "s", "v">>, <<"a", ".", "x", "l", "s", "x">>, <<"a">> }

NoSave == [fn |-> "", stem |-> <<>>, before |-> {},
           res |-> SaveResult({}, <<>>, FALSE, FALSE)]

InitSave ==
    /\ ExceptSaveIdle
    /\ sv_dir \in SaveDirs
    /\ sv_last = NoSave
    /\ sv_count = 0

NewContent(k) == IF k = 0 THEN "new1" ELSE IF k = 1 THEN "new2" ELSE "new"

SaveEnv == {"ok", "PermissionError", "error"}

SaveReplaceCall ==
    /\ sv_count < MaxSaves
    /\ \E stem \in ReplaceStems, att \in SaveAttNames :
       \E renamed \in Renamable(sv_dir, stem), first \in SaveEnv :
       \E second \in {"ok", "error"} :
       \E res \in { save_replace(sv_dir, stem, att, NewContent(sv_count),
                                 renamed, first, second) } :
          /\ sv_dir' = res.dir
          /\ sv_last' = [fn |-> "save_replace", stem |-> stem,
                         before |-> sv_dir, res |-> res]
    /\ sv_count' = sv_count + 1
    /\ UNCHANGED <<exceptSaveVars>>

SaveDatedCall ==
    /\ sv_count < MaxSaves
    /\ \E stem \in DatedStems, att \in SaveAttNames :
       \E renamed \in Renamable(sv_dir, stem \o <<"_">> \o DayStr),
          first \in SaveEnv :
       \E res \in { save_dated_replace_same_day(sv_dir, stem, att,
                         NewContent(sv_count), DayStr, renamed, first) } :
          /\ sv_dir' = res.dir
          /\ sv_last' = [fn |-> "save_dated_replace_same_day",
                         stem |-> stem, before |-> sv_dir, res |-> res]
    /\ sv_count' = sv_count + 1
    /\ UNCHANGED <<exceptSaveVars>>

NextSave == SaveReplaceCall \/ SaveDatedCall

SpecSave == InitSave /\ [][NextSave]_vars

----------------------------------------------------------------------------
(* AlayaCare_Pulling.main: the pass over the items of the last 24 hours    *)
(*                                                                         *)
(* An attachment is [FileName, Size]; an item is [Class, Attachments].     *)
(* pull_saved lists the save calls of the run that returned, in order:     *)
(* [dataset, att, mail] says the attachment att of the mail-th item met was *)
(* saved as the file of dataset.  Items.Sort("[ReceivedTime]", True) puts   *)
(* the newest item first: the first item met is the most recently received. *)

\* the attachments the sender's mails carry
PullAttachments ==
    { [FileName |-> <<"A", "D", "T", " ", "Z", "o", "n", "e", " ", "R", "e", "f", "e", "r", "e", "n", "c", "e", ".", "c", "s", "v">>, Size |-> 1],
      [FileName |-> <<"a", "d", "t", ".", "x", "l", "s", "x">>, Size |-> 2],
      [FileName |-> <<"H", "H", "R", "I", "(", "V", "H", "A", ")", ".", "x", "l", "s", "x">>, Size |-> 1],
      [FileName |-> <<"H", "H", "R", "I", " ", "V", "H", "A", " ", "n", "o", "t", "e", "s", ".", "c", "s", "v">>, Size |-> 1],
      [FileName |-> <<"N", "o", "t", "e", ".", "c", "s", "v">>, Size |-> 1],
      [FileName |-> <<" ">>, Size |-> 1] }

\* the items of the restricted collection: mails of no, one or two
\* attachments, and one item that is not a MailItem
PullItems ==
    { [Class |-> 43, Attachments |-> <<>>] } \cup
    { [Class |-> 43, Attachments |-> <<a>>] : a \in PullAttachments } \cup
    { [Class |-> 43, Attachments |-> <<a, b>>] :
        a \in PullAttachments, b \in PullAttachments } \cup
    { [Class |-> 0, Attachments |-> <<a>>] :
        a \in { x \in PullAttachments : is_hhri_vha_report(x.FileName) } }

\* max(atts, key=Size): the first attachment of the largest size
FirstLargest(atts) ==
    atts[CHOOSE i \in 1..Len(atts) :
            /\ \A j \in 1..Len(atts) : atts[j].Size <= atts[i].Size
            /\ \A j \in 1..(i - 1) : atts[j].Size < atts[i].Size]

\* pick_best_adt_attachment: <<the attachment>>, or <<>> for None
pick_best_adt_attachment(attachments) ==
    LET adt_atts == SelectSeq(attachments,
                              LAMBDA a : is_adt_candidate(StripName(a.FileName)))
        zr == SelectSeq(adt_atts, LAMBDA a : looks_like_zone_reference(a.FileName))
    IN  IF adt_atts = <<>> THEN <<>>
        ELSE IF zr # <<>> THEN <<FirstLargest(zr)>>
        ELSE <<FirstLargest(adt_atts)>>

\* main, lines 238-289: the attachments of one mail from the i-th on.  saved
\* are the save calls of this mail that returned; the fail_at-th save call of
\* the mail raises, which ends the mail (line 291).
RECURSIVE AttachmentLoop(_, _, _, _, _, _)
AttachmentLoop(atts, i, adt_done, hhri_done, saved, fail_at) ==
    IF i > Len(atts)
    THEN [adt_done |-> adt_done, hhri_done |-> hhri_done, saved |-> saved]
    ELSE LET dataset == Classify(atts[i].FileName, adt_done, hhri_done)
         IN  IF dataset = ""
             THEN AttachmentLoop(atts, i + 1, adt_done, hhri_done, saved, fail_at)
             ELSE IF Len(saved) + 1 = fail_at
             THEN [adt_done |-> adt_done, hhri_done |-> hhri_done,
                   saved |-> saved]
             ELSE AttachmentLoop(atts, i + 1, adt_done,
                                 hhri_done \/ dataset = "HHRI(VHA)",
                                 Append(saved, [dataset |-> dataset, att |-> atts[i]]),
                                 fail_at)

\* main, lines 223-292: the body of the loop for one item
MailBody(mail, adt_done, hhri_done, fail_at) ==
    LET same == [adt_done |-> adt_done, hhri_done |-> hhri_done, saved |-> <<>>]
        best_adt == IF adt_done THEN <<>>
                    ELSE pick_best_adt_attachment(mail.Attachments)
    IN  IF mail.Class # 43 THEN same
        ELSE IF Len(mail.Attachments) = 0 THEN same
        ELSE IF best_adt # <<>> /\ fail_at = 1 THEN same
        ELSE IF best_adt # <<>>
        THEN AttachmentLoop(mail.Attachments, 1, TRUE, hhri_done,
                            <<[dataset |-> "ADT with Zone and Reference",
                               att |-> best_adt[1]]>>, fail_at)
        ELSE AttachmentLoop(mail.Attachments, 1, adt_done, hhri_done, <<>>, fail_at)

----------------------------------------------------------------------------
(* SpecPull: runs of main over the mails the restriction returns *)

MaxMails == 2

InitPull ==
    /\ ExceptPullIdle
    /\ PullIdle

\* main, lines 193-215: a run starts with both flags unset
PullStart ==
    /\ pull_pc = "idle"
    /\ pull_runs < MaxRuns
    /\ pull_pc' = "running"
    /\ pull_adt_done' = FALSE
    /\ pull_hhri_done' = FALSE
    /\ pull_saved' = <<>>
    /\ pull_mails' = 0
    /\ pull_runs' = pull_runs + 1
    /\ UNCHANGED <<exceptPullVars>>

\* main, lines 222-292: the next item of the collection
PullItem ==
    /\ pull_pc = "running"
    /\ pull_mails < MaxMails
    /\ \E mail \in PullItems :
       \E fail_at \in 0..(Len(mail.Attachments) + 1) :
          \E r \in { MailBody(mail, pull_adt_done, pull_hhri_done, fail_at) } :
              /\ pull_adt_done' = r.adt_done
              /\ pull_hhri_done' = r.hhri_done
              /\ pull_saved' = pull_saved \o
                    [k \in 1..Len(r.saved) |->
                        [dataset |-> r.saved[k].dataset, att |-> r.saved[k].att,
                         mail |-> pull_mails + 1]]
    /\ pull_mails' = pull_mails + 1
    /\ UNCHANGED <<pull_pc, pull_runs, exceptPullVars>>

\* main, lines 294-297: the collection is exhausted
PullFinish ==
    /\ pull_pc = "running"
    /\ pull_pc' = "idle"
    /\ UNCHANGED <<pull_adt_done, pull_hhri_done, pull_saved, pull_mails,
                   pull_runs, exceptPullVars>>

NextPull == PullStart \/ PullItem \/ PullFinish

SpecPull == InitPull /\ [][NextPull]_vars

----------------------------------------------------------------------------
(* Treat_File_Moving._atomic_replace_move                                  *)
(*                                                                         *)
(* mv_files holds what src, dest.name + ".~partial" and dest contain ("" :  *)
(* no such file).  mv_locked: another process holds dest open, so that     *)
(* os.replace raises PermissionError.  mv_tries lists the os.replace calls *)
(* made, [locked, result]; mv_slept the arguments of time.sleep, in tenths *)
(* of a second.                                                            *)

\* defaults of the parameters; backoff 0.4 s in tenths of a second
retries_default == 6
backoff_default == 4

\* line 58: the argument of time.sleep after a PermissionError in pass i
BackoffSleep(i) == backoff_default * (i + 1)

\* line 53, for i in range(retries): a further pass of the loop is made
InRetryLoop_OnePassMore(i, retries) == i <= retries

InRetryLoop(i, retries) == i < retries

\* os.replace(tmp, dest): what one call does
ReplaceResult(locked, other_error) ==
    IF other_error THEN "error"
    ELSE IF locked THEN "PermissionError"
    ELSE "ok"

\* the files after os.replace(tmp, dest) succeeded
Replaced(files) == [files EXCEPT !.dest = files.tmp, !.tmp = ""]

----------------------------------------------------------------------------
(* SpecMove: one call of _atomic_replace_move, the lock coming and going *)

MaxRetries == 6

InitMove ==
    /\ ExceptMoveIdle
    /\ mv_pc = "called"
    /\ mv_retries \in 0..MaxRetries
    /\ mv_i = 0
    /\ \E t \in {"", "stale"}, d \in {"", "old"} :
          mv_files = [src |-> "new", tmp |-> t, dest |-> d]
    /\ mv_locked \in BOOLEAN
    /\ mv_tries = <<>>
    /\ mv_slept = <<>>

\* lines 39-50: the leftover temp is removed when it can be, and the source is
\* moved to the temp name; a failure of shutil.move leaves the function
MovePrepare ==
    /\ mv_pc = "called"
    /\ \E unlink_ok \in BOOLEAN, move_ok \in BOOLEAN :
          LET cleaned == IF mv_files.tmp # "" /\ unlink_ok
                         THEN [mv_files EXCEPT !.tmp = ""] ELSE mv_files
          IN  IF move_ok
              THEN /\ mv_files' = [cleaned EXCEPT !.tmp = cleaned.src, !.src = ""]
                   /\ mv_pc' = "replace"
              ELSE /\ mv_files' = cleaned
                   /\ mv_pc' = "raised"
    /\ UNCHANGED <<mv_retries, mv_i, mv_locked, mv_tries, mv_slept,
                   exceptMoveVars>>

\* lines 53-60: one pass of the loop
MoveAttempt ==
    /\ mv_pc = "replace"
    /\ InRetryLoop(mv_i, mv_retries)
    /\ \E other_error \in BOOLEAN :
          \E res \in { ReplaceResult(mv_locked, other_error) } :
              /\ mv_tries' = Append(mv_tries, [locked |-> mv_locked, result |-> res])
              /\ IF res = "ok"
                 THEN /\ mv_files' = Replaced(mv_files)
                      /\ mv_pc' = "returned"
                      /\ UNCHANGED <<mv_i, mv_slept>>
                 ELSE IF res = "PermissionError"
                 THEN /\ mv_slept' = Append(mv_slept, BackoffSleep(mv_i))
                      /\ mv_i' = mv_i + 1
                      /\ UNCHANGED <<mv_files, mv_pc>>
                 ELSE /\ mv_pc' = "raised"
                      /\ UNCHANGED <<mv_files, mv_i, mv_slept>>
    /\ UNCHANGED <<mv_retries, mv_locked, exceptMoveVars>>

\* lines 61-62: the attempt after the loop
MoveFinalAttempt ==
    /\ mv_pc = "replace"
    /\ ~InRetryLoop(mv_i, mv_retries)
    /\ \E other_error \in BOOLEAN :
          \E res \in { ReplaceResult(mv_locked, other_error) } :
              /\ mv_tries' = Append(mv_tries, [locked |-> mv_locked, result |-> res])
              /\ IF res = "ok"
                 THEN /\ mv_files' = Replaced(mv_files)
                      /\ mv_pc' = "returned"
                 ELSE /\ mv_pc' = "raised"
                      /\ UNCHANGED mv_files
    /\ UNCHANGED <<mv_retries, mv_i, mv_locked, mv_slept, exceptMoveVars>>

\* the sync client opens or closes dest while the call runs
LockChanges ==
    /\ mv_pc \in {"called", "replace"}
    /\ mv_locked' = ~mv_locked
    /\ UNCHANGED <<mv_pc, mv_retries, mv_i, mv_files, mv_tries, mv_slept,
                   exceptMoveVars>>

MoveStep == MovePrepare \/ MoveAttempt \/ MoveFinalAttempt

NextMove == MoveStep \/ LockChanges

SpecMove == InitMove /\ [][NextMove]_vars

\* the interpreter keeps running the call
SpecMoveFair == SpecMove /\ WF_vars(MoveStep)

----------------------------------------------------------------------------
(* The table writers under a lock on the destination                       *)
(*                                                                         *)
(* write_atomic_csv / write_atomic_xlsx (AlayaCare_Data_Cleaning) and      *)
(* _write_csv_atomic (Treat_Data_Cleaning), step by step.  wr_files holds  *)
(* what the temporary file and the destination contain ("" : no such       *)
(* file); wr_locked: another process holds the destination open, so that   *)
(* os.remove and os.replace on it raise PermissionError; wr_tries lists    *)
(* the calls on the destination, [op, result].                             *)

Writers == {"write_atomic_csv", "write_atomic_xlsx", "_write_csv_atomic"}

\* os.remove(final_path) / os.replace(tmp, final): what one call does
DestCallResult(locked) == IF locked THEN "PermissionError" ELSE "ok"

MaxWrites == 2

InitWrite ==
    /\ ExceptWriteIdle
    /\ wr_fn = ""
    /\ wr_pc = "idle"
    /\ \E t \in {"", "stale"}, d \in {"", "old"} :
          wr_files = [tmp |-> t, dest |-> d]
    /\ wr_locked \in BOOLEAN
    /\ wr_tries = <<>>
    /\ wr_count = 0

\* the table the k-th writer call is given
WrittenTable(k) == IF k = 1 THEN "new1" ELSE IF k = 2 THEN "new2" ELSE "new"

\* a writer is called
WriteCall ==
    /\ wr_pc \in {"idle", "returned", "raised"}
    /\ wr_count < MaxWrites
    /\ wr_fn' \in Writers
    /\ wr_pc' = "called"
    /\ wr_tries' = <<>>
    /\ wr_count' = wr_count + 1
    /\ UNCHANGED <<wr_files, wr_locked, exceptWriteVars>>

\* the temporary file is written: df.to_csv(tmp_path) (line 51), the
\* csv.writer loop (lines 68-72); pd.ExcelWriter(tmp_path) (line 58) raises
\* ValueError for the extension ".tmp"
WriteTemp ==
    /\ wr_pc = "called"
    /\ IF wr_fn = "write_atomic_xlsx"
       THEN /\ wr_pc' = "raised"
            /\ wr_tries' = Append(wr_tries, [op |-> "ExcelWriter",
                                             result |-> "ValueError"])
            /\ UNCHANGED wr_files
       ELSE /\ wr_files' = [wr_files EXCEPT !.tmp = WrittenTable(wr_count)]
            /\ wr_pc' = IF wr_fn = "write_atomic_csv" THEN "remove" ELSE "replace"
            /\ UNCHANGED wr_tries
    /\ UNCHANGED <<wr_fn, wr_locked, wr_count, exceptWriteVars>>

\* write_atomic_csv lines 52-53: if os.path.exists(final_path):
\* os.remove(final_path)
WriteRemove ==
    /\ wr_pc = "remove"
    /\ IF wr_files.dest = ""
       THEN /\ wr_pc' = "replace"
            /\ UNCHANGED <<wr_files, wr_tries>>
       ELSE \E res \in { DestCallResult(wr_locked) } :
              /\ wr_tries' = Append(wr_tries, [op |-> "remove", result |-> res])
              /\ IF res = "ok"
                 THEN /\ wr_files' = [wr_files EXCEPT !.dest = ""]
                      /\ wr_pc' = "replace"
                 ELSE /\ wr_pc' = "raised"
                      /\ UNCHANGED wr_files
    /\ UNCHANGED <<wr_fn, wr_locked, wr_count, exceptWriteVars>>

\* os.replace(tmp_path, final_path): write_atomic_csv line 54,
\* _write_csv_atomic line 73
WriteReplace ==
    /\ wr_pc = "replace"
    /\ \E res \in { DestCallResult(wr_locked) } :
          /\ wr_tries' = Append(wr_tries, [op |-> "replace", result |-> res])
          /\ IF res = "ok"
             THEN /\ wr_files' = [tmp |-> "", dest |-> wr_files.tmp]
                  /\ wr_pc' = "returned"
             ELSE /\ wr_pc' = "raised"
                  /\ UNCHANGED wr_files
    /\ UNCHANGED <<wr_fn, wr_locked, wr_count, exceptWriteVars>>

\* the sync client opens or closes the destination while the writer runs
WriteLockChanges ==
    /\ wr_pc \in {"called", "remove", "replace"}
    /\ wr_locked' = ~wr_locked
    /\ UNCHANGED <<wr_fn, wr_pc, wr_files, wr_tries, wr_count,
                   exceptWriteVars>>

NextWrite == WriteCall \/ WriteTemp \/ WriteRemove \/ WriteReplace \/ WriteLockChanges

SpecWrite == InitWrite /\ [][NextWrite]_vars

----------------------------------------------------------------------------
(* SpecMain: process_dataset when CLEAN_DIR holds two candidate tables *)

\* a one-row table as a file of the extension holds it
MainTableOf(ext, id) ==
    IF FormatOfExt(ext) = "xlsx"
    THEN File("xlsx", << <<Cell(IF id \in NumericTexts THEN "num" ELSE "str", id),
                           Cell("str", "x")>> >>, "ok", "Sheet1")
    ELSE File("csv", << <<Cell("txt", id), Cell("txt", "x")>> >>, "ok", "")

\* CLEAN_DIR with two of the candidate paths present, holding different rows
InitCleanTwo ==
    { [p \in MainPaths |-> IF p = pp[1] THEN MainTableOf(p.ext, "1")
                           ELSE IF p = pp[2] THEN MainTableOf(p.ext, "a")
                           ELSE NoFile] :
        pp \in { qq \in MainPaths \X MainPaths : qq[1] # qq[2] } }

InitMain ==
    /\ clean \in InitCleanTwo
    /\ tmpf = EmptyDir
    /\ raw \in InitRaw
    /\ pc = "idle"
    /\ main_path = NoPath
    /\ out_path = NoPath
    /\ write_as_xlsx = FALSE
    /\ combined = <<>>
    /\ outcome = "none"
    /\ hist = <<>>
    /\ pre_clean = EmptyDir
    /\ TreatIdle
    /\ RestIdle

SpecMain == InitMain /\ [][Next]_vars

----------------------------------------------------------------------------
(* Decoding of delimited files                                             *)
(*                                                                         *)
(* A file is a sequence of units: "a" an ASCII byte, "C3A9" the two bytes  *)
(* of a UTF-8 encoded letter, "E9" a byte that is a letter in cp1252 and   *)
(* latin-1 but no valid UTF-8, "81" a byte that cp1252 leaves undefined.   *)

FileUnits == {"a", "C3A9", "E9", "81"}

\* bytes.decode(enc, errors="strict") does not raise
Decodes(enc, bytes) ==
    \A k \in 1..Len(bytes) :
        IF enc \in {"utf-8-sig", "utf-8"} THEN bytes[k] \in {"a", "C3A9"}
        ELSE IF enc = "cp1252" THEN bytes[k] # "81"
        ELSE TRUE

\* the first encoding of the list under which the bytes decode: <<enc>>, or
\* <<>> when none does
FirstDecoding(encodings, bytes) ==
    LET ok == SelectSeq(encodings, LAMBDA enc : Decodes(enc, bytes))
    IN  IF ok = <<>> THEN <<>> ELSE <<Head(ok)>>

\* f.read(8192) of _open_with_encodings: the units of the file the sample
\* holds, here the first one
SampleUnits == 1

Sample(bytes) == SubSeq(bytes, 1, IF Len(bytes) < SampleUnits THEN Len(bytes)
                                  ELSE SampleUnits)

ReadTableEncodings == <<"utf-8-sig", "utf-8", "cp1252">>

\* read_table on a .csv: pd.read_csv(path, encoding=enc) per encoding, whole
\* file; after the loop pd.read_csv(path, errors="replace"), which raises
\* TypeError: read_csv has no parameter "errors"
read_table_csv(bytes) ==
    LET first == FirstDecoding(ReadTableEncodings, bytes)
    IN  IF first # <<>>
        THEN [kind |-> "loaded", enc |-> first[1], lossy |-> FALSE]
        ELSE [kind |-> "raised", enc |-> "", lossy |-> FALSE]

OpenEncodings == <<"utf-8-sig", "utf-8", "cp1252", "latin-1">>

\* _open_with_encodings: the encoding under which the sample decodes; the
\* errors="ignore" fallback when none does
_open_with_encodings(bytes) ==
    LET first == FirstDecoding(OpenEncodings, Sample(bytes))
    IN  IF first # <<>> THEN [enc |-> first[1], lossy |-> FALSE]
        ELSE [enc |-> "utf-8", lossy |-> TRUE]

\* process_file lines 337-344: the file is opened again with enc and the
\* default errors="strict" by _find_header_row_by_colA and _read_after_header,
\* which between them read every record
process_file_read(bytes) ==
    LET opened == _open_with_encodings(bytes)
    IN  IF Decodes(opened.enc, bytes)
        THEN [kind |-> "loaded", enc |-> opened.enc, lossy |-> opened.lossy]
        ELSE [kind |-> "raised", enc |-> opened.enc, lossy |-> opened.lossy]

----------------------------------------------------------------------------
(* SpecRead: one delimited file read by one of the two readers *)

MaxFileUnits == 3

Readers == {"read_table", "process_file"}

InitRead ==
    /\ ExceptReadIdle
    /\ rd_reader \in Readers
    /\ rd_bytes \in SeqsUpTo(FileUnits, MaxFileUnits)
    /\ rd_out = [kind |-> "none", enc |-> "", lossy |-> FALSE]

ReadTableCall ==
    /\ rd_reader = "read_table"
    /\ rd_out.kind = "none"
    /\ rd_out' = read_table_csv(rd_bytes)
    /\ UNCHANGED <<rd_reader, rd_bytes, exceptReadVars>>

ProcessFileRead ==
    /\ rd_reader = "process_file"
    /\ rd_out.kind = "none"
    /\ rd_out' = process_file_read(rd_bytes)
    /\ UNCHANGED <<rd_reader, rd_bytes, exceptReadVars>>

NextRead == ReadTableCall \/ ProcessFileRead

SpecRead == InitRead /\ [][NextRead]_vars

----------------------------------------------------------------------------
(* SpecHeader: process_file on one delimited source, from the header search *)
(* on.  hd_call is the place of the call in the sequence of run(),          *)
(* hd_records the records csv.reader yields for the source, hd_clean the    *)
(* table at the destination (NoTable: no such file).                        *)

MaxHeaderRecords == 3

\* the calls of the model: the first of run() has a per-file transform, the
\* second has none
HeaderCalls == {1, 2}

\* records of a source of the call: a blank line, the report banner, the
\* header record as exported and in lower case, data records
HeaderRecordPool(c) ==
    IF c = 1
    THEN { <<>>, <<"Report">>,
           <<"NewAdmissionstoOrg", "ID", "patient">>,
           <<"newadmissionstoorg", "ID", "patient">>,
           <<"0", "1 ", "n">>, <<"0", "5", "n">> }
    ELSE { <<>>, <<"Report">>,
           <<"textbox121", "textbox5">>,
           <<"c", "n">>, <<"d", "n">> }

\* process_file lines 337-349 on the records of the source: what it returns
\* or raises, the header index it found, and the table at the destination
\* afterwards
ProcessRecords(call, records, before, dest_locked) ==
    LET hdr_idx == _find_header_row_by_colA(records, call.needles)
        read    == _read_after_header(records, hdr_idx)
        out     == Transform(call.transform, read.header, read.rows)
    IN  IF hdr_idx = -1
        THEN [kind |-> "return", hdr_idx |-> hdr_idx, dest |-> before]
        ELSE IF dest_locked
        THEN [kind |-> "raise", hdr_idx |-> hdr_idx, dest |-> before]
        ELSE [kind |-> "written", hdr_idx |-> hdr_idx, dest |-> out]

InitHeader ==
    /\ ExceptHeaderIdle
    /\ hd_call \in HeaderCalls
    /\ hd_records \in SeqsUpTo(HeaderRecordPool(hd_call), MaxHeaderRecords)
    /\ hd_clean \in {NoTable, Table(<<"old">>, << <<"o">> >>)}
    /\ hd_out = [kind |-> "none", hdr_idx |-> -1]

HeaderCall ==
    /\ hd_out.kind = "none"
    /\ \E dest_locked \in BOOLEAN :
          \E r \in { ProcessRecords(TreatCalls[hd_call], hd_records, hd_clean,
                                    dest_locked) } :
              /\ hd_out' = [kind |-> r.kind, hdr_idx |-> r.hdr_idx]
              /\ hd_clean' = r.dest
    /\ UNCHANGED <<hd_call, hd_records, exceptHeaderVars>>

NextHeader == HeaderCall

SpecHeader == InitHeader /\ [][NextHeader]_vars

----------------------------------------------------------------------------
(* SpecTransform: _rename_header_ci on one header, and                      *)
(* _rpt_progstafffinance_transform on one table whose rows need not have    *)
(* the length of the header.                                                *)

MaxTransformRows == 2

\* headers: the combined "Name (ID)" column first and last, beside an
\* identifier column of the export, beside a dropped column; vendor columns
\* beside the canonical name they are renamed to, and twice
TransformHeaders ==
    { <<"textbox55", "textbox37">>, <<"textbox37", "textbox55">>,
      <<"ID", "textbox55">>, <<"textbox55", "ClaimID">>,
      <<"Staff", "textbox2">>, <<"textbox2", "Staff">>,
      <<"textbox2", "Textbox2">>, <<"patient", "ID">> }

\* rows: of the header's length, shorter, longer, empty
TransformRowPool ==
    { <<"Ann (1) ", "s">>, <<"Bob (5)", "s">>, <<"s", "Ann (1)">>,
      <<"5", "Ann (1)">>, <<"Ann (1)">>, <<"Bob (5)", "s", "x">>,
      <<"Ann (1) ", "s", "5">>, <<>> }

\* the rename maps of the transforms, up to the entries that match a header
\* of the model
RenameMaps ==
    { << <<"textbox2", "Staff">>, <<"patient", "ClientName">> >>,
      << <<"textbox55", "ClientName">>, <<"__EXTRACTED_ID__", "ID">> >>,
      <<>> }

\* the header as a transform hands it to the rename: as read, or with the
\* extracted column appended (line 161)
RenameHeaders(h) == { h, Append(h, "__EXTRACTED_ID__") }

InitTransform ==
    /\ ExceptTransformIdle
    /\ tf_header \in TransformHeaders
    /\ tf_rows \in SeqsUpTo(TransformRowPool, MaxTransformRows)
    /\ tf_mapping \in RenameMaps
    /\ tf_renamed = [returned |-> FALSE, given |-> <<>>, header |-> <<>>]
    /\ tf_out = [returned |-> FALSE, header |-> <<>>, rows |-> <<>>]

RenameCall ==
    /\ ~tf_renamed.returned
    /\ \E h \in RenameHeaders(tf_header) :
          tf_renamed' = [returned |-> TRUE, given |-> h,
                         header |-> _rename_header_ci(h, tf_mapping)]
    /\ UNCHANGED <<tf_header, tf_rows, tf_mapping, tf_out, exceptTransformVars>>

ProgStaffFinanceCall ==
    /\ ~tf_out.returned
    /\ LET t == _rpt_progstafffinance_transform(tf_header, tf_rows)
       IN  tf_out' = [returned |-> TRUE, header |-> t.header, rows |-> t.rows]
    /\ UNCHANGED <<tf_header, tf_rows, tf_mapping, tf_renamed, exceptTransformVars>>

NextTransform == RenameCall \/ ProgStaffFinanceCall

SpecTransform == InitTransform /\ [][NextTransform]_vars

----------------------------------------------------------------------------
(* SpecPipeline: main.py.  The UI thread runs start_pipeline and           *)
(* _drain_queue; every run_pipeline thread takes one step of its loop at a  *)
(* time and posts its events to App.q.  A drain empties the queue: an event *)
(* posted while it runs is handled by it or by the next one alike.  A      *)
(* thread posts only while fewer than MaxQueued events wait in the queue.   *)

MaxPipelineRuns == 2   \* runs started in one behaviour
MaxQueued == 2         \* events in App.q beyond which a thread waits for the UI

STEPS == << [key |-> "clean",  module |-> "Clean_Download_Folder"],
            [key |-> "treat",  module |-> "Treat_Pulling"],
            [key |-> "move",   module |-> "Treat_File_Moving"],
            [key |-> "tclean", module |-> "Treat_Data_Cleaning"],
            [key |-> "alaya",  module |-> "AlayaCare_Pulling"],
            [key |-> "aclean", module |-> "AlayaCare_Data_Cleaning"] >>

StepKeys == [k \in 1..Len(STEPS) |-> STEPS[k].key]

\* run_pipeline(app, stop_on_error=True), called with args=(self.app,)
stop_on_error_Continue == FALSE

stop_on_error == TRUE

LogEvent == [typ |-> "log", key |-> "", state |-> ""]

StatusEvent(key, state) == [typ |-> "status", key |-> key, state |-> state]

TerminalEvent(typ) == [typ |-> typ, key |-> "", state |-> ""]

\* a run_pipeline thread: its position, its locals i (the index of the
\* step of the loop) and com_inited, and what it did so far: the keys of
\* the steps it started, the number of steps whose runner returned, whether
\* a step failed, the terminal events it posted
NewWorker ==
    [pc |-> "com", i |-> 0, com_inited |-> FALSE, started |-> <<>>, ok |-> 0,
     failed |-> FALSE, posted |-> <<>>]

Executing(w) == w.pc # "finished"

\* the worker after a step that did not end the run: the next step of the
\* loop, or the finally clause after the last one
Continue(w) ==
    IF w.i < Len(STEPS) THEN [w EXCEPT !.pc = "loop", !.i = w.i + 1]
    ELSE [w EXCEPT !.pc = "finally"]

\* the worker and the events posted when a step failed (lines 685-690 and
\* 699-704)
AfterFailure(w) ==
    LET posted == <<StatusEvent(STEPS[w.i].key, "fail"), LogEvent>>
        f == [w EXCEPT !.failed = TRUE]
    IN  IF stop_on_error
        THEN [worker |-> [f EXCEPT !.pc = "finally",
                                   !.posted = Append(w.posted, "failed_all")],
              events |-> Append(posted, TerminalEvent("failed_all"))]
        ELSE [worker |-> Continue(f), events |-> posted]

\* the events that end a run for _drain_queue (lines 267-276)
EndsRun_FailedOnly(typ) == typ = "failed_all"

EndsRun(typ) == typ \in {"done_all", "failed_all"}

TerminalLine(typ) ==
    IF typ = "done_all" THEN "All steps completed."
    ELSE "Pipeline stopped due to failure."

\* _drain_queue on one event
Drained(ui, ev) ==
    IF ev.typ = "status"
    THEN [ui EXCEPT !.status = [ui.status EXCEPT ![ev.key] = ev.state],
                    !.progress = ui.progress \/ ev.state = "running"]
    ELSE IF EndsRun(ev.typ)
    THEN [ui EXCEPT !.progress = FALSE,
                    !.log = Append(ui.log, TerminalLine(ev.typ)),
                    !.running = FALSE,
                    !.btn = TRUE]
    ELSE ui

RECURSIVE DrainAll(_, _)
DrainAll(ui, q) ==
    IF q = <<>> THEN ui ELSE DrainAll(Drained(ui, Head(q)), Tail(q))

PendingStatus == [k \in { STEPS[n].key : n \in 1..Len(STEPS) } |-> "pending"]

InitPipeline ==
    /\ ExceptPipelineIdle
    /\ app_running = FALSE
    /\ app_q = <<>>
    /\ btn_run = TRUE
    /\ ui_status = PendingStatus
    /\ ui_progress = FALSE
    /\ ui_log = <<>>
    /\ workers = <<>>

\* start_pipeline, from the Run button, F5 or Ctrl-R; the call that finds
\* app.running set returns at once
StartPipeline ==
    /\ ~app_running
    /\ Len(workers) < MaxPipelineRuns
    /\ ui_status' = PendingStatus
    /\ ui_progress' = FALSE
    /\ app_running' = TRUE
    /\ btn_run' = FALSE
    /\ workers' = Append(workers, NewWorker)
    /\ UNCHANGED <<app_q, ui_log, exceptPipelineVars>>

DrainQueue ==
    /\ app_q # <<>>
    /\ LET ui == DrainAll([running |-> app_running, btn |-> btn_run,
                           status |-> ui_status, progress |-> ui_progress,
                           log |-> ui_log], app_q)
       IN  /\ app_running' = ui.running
           /\ btn_run' = ui.btn
           /\ ui_status' = ui.status
           /\ ui_progress' = ui.progress
           /\ ui_log' = ui.log
    /\ app_q' = <<>>
    /\ UNCHANGED <<workers, exceptPipelineVars>>

\* lines 668-673: CoInitializeEx returns or raises
WorkerComInit(n) ==
    /\ workers[n].pc = "com"
    /\ Len(app_q) < MaxQueued
    /\ \E inited \in BOOLEAN :
          /\ workers' = [workers EXCEPT ![n] =
                            Continue([@ EXCEPT !.com_inited = inited])]
          /\ app_q' = IF inited THEN app_q ELSE Append(app_q, LogEvent)
    /\ UNCHANGED <<app_running, btn_run, ui_status, ui_progress, ui_log,
                   exceptPipelineVars>>

\* lines 676-691: the step is announced and its runner imported
WorkerStartStep(n) ==
    /\ workers[n].pc = "loop"
    /\ Len(app_q) < MaxQueued
    /\ LET w == [workers[n] EXCEPT
                    !.started = Append(@, STEPS[workers[n].i].key)]
           announced == <<LogEvent, StatusEvent(STEPS[w.i].key, "running")>>
       IN  \E imported \in BOOLEAN :
              IF imported
              THEN /\ workers' = [workers EXCEPT ![n] = [w EXCEPT !.pc = "run"]]
                   /\ app_q' = app_q \o announced
              ELSE /\ workers' = [workers EXCEPT ![n] = AfterFailure(w).worker]
                   /\ app_q' = app_q \o announced \o AfterFailure(w).events
    /\ UNCHANGED <<app_running, btn_run, ui_status, ui_progress, ui_log,
                   exceptPipelineVars>>

\* lines 693-705: the runner returns or raises
WorkerRunStep(n) ==
    /\ workers[n].pc = "run"
    /\ Len(app_q) < MaxQueued
    /\ LET w == workers[n]
       IN  \E raised \in BOOLEAN :
              IF raised
              THEN /\ workers' = [workers EXCEPT ![n] = AfterFailure(w).worker]
                   /\ app_q' = app_q \o AfterFailure(w).events
              ELSE /\ workers' = [workers EXCEPT ![n] =
                                     Continue([w EXCEPT !.ok = w.ok + 1])]
                   /\ app_q' = app_q \o
                                 <<StatusEvent(STEPS[w.i].key, "done"), LogEvent>>
    /\ UNCHANGED <<app_running, btn_run, ui_status, ui_progress, ui_log,
                   exceptPipelineVars>>

\* lines 706-710: the finally clause, after which the thread is over
WorkerFinally(n) ==
    /\ workers[n].pc = "finally"
    /\ Len(app_q) < MaxQueued
    /\ workers' = [workers EXCEPT ![n] =
                      [@ EXCEPT !.pc = "finished", !.i = 0, !.com_inited = FALSE,
                                !.posted = Append(@, "done_all")]]
    /\ app_q' = Append(app_q, TerminalEvent("done_all"))
    /\ UNCHANGED <<app_running, btn_run, ui_status, ui_progress, ui_log,
                   exceptPipelineVars>>

WorkerStep ==
    \E n \in 1..Len(workers) :
        \/ WorkerComInit(n)
        \/ WorkerStartStep(n)
        \/ WorkerRunStep(n)
        \/ WorkerFinally(n)

NextPipeline == StartPipeline \/ DrainQueue \/ WorkerStep

SpecPipeline == InitPipeline /\ [][NextPipeline]_vars

\* every started thread keeps running and the UI keeps draining the queue
SpecPipelineFair ==
    SpecPipeline /\ WF_vars(WorkerStep) /\ WF_vars(DrainQueue)

----------------------------------------------------------------------------
(* SpecDates: the report window of Treat_Pulling.  The module computes     *)
(* TODAY and START_DATE when it is imported, which main.py does anew for    *)
(* every run; set_dates types them into the report form.  A formatted date  *)
(* is <<"%d", "%b", %Y>>.                                                   *)

\* the years today is taken from: a leap year and the year after
Years == 2024..2025

Date(y, m, d) == [year |-> y, month |-> m, day |-> d]

IsLeap(y) == (y % 4 = 0 /\ y % 100 # 0) \/ y % 400 = 0

DaysInMonth(y, m) ==
    IF m = 2 THEN (IF IsLeap(y) THEN 29 ELSE 28)
    ELSE IF m \in {4, 6, 9, 11} THEN 30
    ELSE 31

MonthAbbr == <<"Jan", "Feb", "Mar", "Apr", "May", "Jun",
               "Jul", "Aug", "Sep", "Oct", "Nov", "Dec">>

\* "%d": the day of the month as two digits
TwoDigits(n) ==
    <<"0", "1", "2", "3">>[(n \div 10) + 1] \o
    <<"0", "1", "2", "3", "4", "5", "6", "7", "8", "9">>[(n % 10) + 1]

\* strftime("%d-%b-%Y")
strftime(dt) == <<TwoDigits(dt.day), MonthAbbr[dt.month], dt.year>>

\* lines 50-54: _start_dt
_start_dt(_today) ==
    LET _start_year == _today.year - 1
        _start_month == IF _today.month + 1 = 13 THEN 1 ELSE _today.month + 1
    IN  Date(_start_year, _start_month, 1)

\* the days today is taken from: the first, the middle and the last days of
\* every month
Todays ==
    { dt \in [year : Years, month : 1..12, day : {1, 15, 28, 29, 30, 31}] :
        dt.day <= DaysInMonth(dt.year, dt.month) }

InitDates ==
    /\ ExceptDatesIdle
    /\ today \in Todays
    /\ TODAY = <<>>
    /\ START_DATE = <<>>
    /\ form_dates = [start |-> <<>>, end |-> <<>>]

\* lines 47-55, run when the module is imported
ImportTreatPulling ==
    /\ TODAY = <<>>
    /\ TODAY' = strftime(today)
    /\ START_DATE' = strftime(_start_dt(today))
    /\ UNCHANGED <<today, form_dates, exceptDatesVars>>

\* set_dates, lines 224-231
set_dates ==
    /\ TODAY # <<>>
    /\ form_dates = [start |-> <<>>, end |-> <<>>]
    /\ form_dates' = [start |-> START_DATE, end |-> TODAY]
    /\ UNCHANGED <<today, TODAY, START_DATE, exceptDatesVars>>

NextDates == ImportTreatPulling \/ set_dates

SpecDates == InitDates /\ [][NextDates]_vars

----------------------------------------------------------------------------
(* Claims about process_dataset *)

\* the sources a run that started from (cdir, rdir) can read, in the order of
\* the concatenation: the existing table, then the raw files by sorted path
ReadableSources(cdir, rdir) ==
    LET mp == find_existing_main(cdir, MainBaseCandidates)
    IN  (IF mp # NoPath /\ cdir[mp].state = "ok" THEN <<cdir[mp]>> ELSE <<>>) \o
        SelectSeq([k \in 1..Len(RawNames) |-> rdir[RawNames[k]]],
                  LAMBDA f : f # NoFile /\ f.state = "ok")

\* the rows of those sources as a reader of the files sees them
SourceRowsAsText(cdir, rdir) ==
    FlattenSeq([k \in 1..Len(ReadableSources(cdir, rdir)) |->
                    TextOf(ReadableSources(cdir, rdir)[k].rows)])

NoDuplicateRows(rows) ==
    \A i, j \in 1..Len(rows) : rows[i] = rows[j] => i = j

\* C1: the table written by process_dataset is the first-occurrence
\* deduplication of the concatenation of the existing table's rows and the
\* rows of every readable raw file in sorted path order; no two rows of it
\* are equal in every column.
C1_WrittenIsDedupOfConcatenation ==
    outcome = "written" =>
        /\ NoDuplicateRows(TextOf(clean[out_path].rows))
        /\ TextOf(clean[out_path].rows) =
              drop_duplicates(SourceRowsAsText(pre_clean, raw))

\* C2: a second run of process_dataset over the same raw files leaves the
\* canonical table as the first run wrote it: same path, same format, same
\* rows in the same order.
C2_SecondRunChangesNothing ==
    (Len(hist) = 2 /\ hist[1].outcome = "written" /\ hist[2].outcome = "written") =>
        /\ hist[2].path = hist[1].path
        /\ hist[2].after = hist[1].after

\* C3: while a canonical table is being written, and wherever the write
\* stops, a destination that existed before holds the complete previous
\* table or the complete new one.
C3_DestinationOldOrNew ==
    (out_path # NoPath /\ pre_clean[out_path] # NoFile) =>
        clean[out_path] \in {pre_clean[out_path], NewFile(combined, write_as_xlsx)}

\* C4: after a write that failed, the previous canonical table is unchanged
\* and no temporary file is left next to it.
C4_FailedWriteLeavesNoTrace ==
    outcome = "raised" =>
        /\ clean[out_path] = pre_clean[out_path]
        /\ tmpf[out_path] = NoFile

\* C5: a run that found an existing canonical table and wrote its
\* destination kept every row that table had.
C5_ExistingRowsRetained ==
    (outcome = "written" /\ main_path # NoPath) =>
        Range(TextOf(pre_clean[main_path].rows)) \subseteq
            Range(TextOf(clean[main_path].rows))

\* C6: a run that found an existing canonical table writes the result to
\* that path in that table's format (a spreadsheet with the dataset's sheet
\* name for .xlsx/.xls, delimited text for .csv), a run that found none
\* creates <default name>.csv; the format of a table never changes.
C6_WritesInExistingFormat ==
    \A k \in 1..Len(hist) :
        (hist[k].outcome # "skipped" /\ hist[k].fault = "none") =>
            /\ hist[k].outcome = "written"
            /\ hist[k].path = IF hist[k].found # NoPath THEN hist[k].found
                              ELSE [base |-> DefaultMainBasename, ext |-> ".csv"]
            /\ hist[k].after.fmt = FormatOfExt(hist[k].path.ext)
            /\ hist[k].after.fmt = "xlsx" => hist[k].after.sheet = SheetName
            /\ hist[k].before # NoFile => hist[k].after.fmt = hist[k].before.fmt

\* the frames of the readable sources, read one by one
ReadableFrames(cdir, rdir) ==
    LET mp == find_existing_main(cdir, MainBaseCandidates)
    IN  (IF mp # NoPath /\ cdir[mp].state = "ok"
         THEN <<read_table(mp.ext, cdir[mp]).rows>> ELSE <<>>) \o
        FlattenSeq([k \in 1..Len(RawNames) |->
            IF rdir[RawNames[k]] # NoFile /\ rdir[RawNames[k]].state = "ok"
            THEN <<read_table(RawNames[k].ext, rdir[RawNames[k]]).rows>>
            ELSE <<>>])

\* C7: when a dataset has no readable data (nothing is found, or every
\* source found fails to read), process_dataset returns without an error and
\* without creating, writing or removing any file of the clean directory.
C7_NoReadableDataChangesNothing ==
    [][(pc = "idle" /\ ReadableSources(clean, raw) = <<>>) =>
           /\ pc' = "idle"
           /\ outcome' = "skipped"
           /\ clean' = clean
           /\ tmpf' = tmpf]_vars

\* a run was skipped although an existing table and a raw file were found
C7_Witness ==
    /\ outcome = "skipped"
    /\ main_path # NoPath
    /\ \E n \in Range(RawNames) : raw[n] # NoFile

----------------------------------------------------------------------------
(* Claims about Treat_Data_Cleaning.run() *)

\* C9: an error raised while one source file is processed is confined to
\* that file: run() still makes every later call of its sequence.
C9_ErrorsConfinedToFile ==
    treat_outcome \in {"raised", "returned"} => treat_made = NumCalls

HasTestId(t) ==
    LET i == _case_index(t.header, "id")
    IN  /\ t # NoTable
        /\ i # 0
        /\ \E r \in 1..Len(t.rows) :
              i <= Len(t.rows[r]) /\ Strip(t.rows[r][i]) \in TEST_IDS

\* C10: after a complete cleaning run no clean output that has an ID column
\* holds a row whose trimmed ID is a denylisted test identifier.
C10_DenylistOnAllOutputs ==
    treat_outcome = "returned" => \A d \in TreatDests : ~HasTestId(treat_clean[d])

----------------------------------------------------------------------------
(* Record filter *)

\* the position of the identifier column in the header handed to the filter:
\* the first cell that is the name up to case and padding, 0 when there is none
FilterIdColumn ==
    LET hits == { i \in 1..Len(flt_header) :
                    Lower(Strip(flt_header[i])) = Lower(flt_id_col) }
    IN  IF hits = {} THEN 0 ELSE CHOOSE i \in hits : \A j \in hits : i <= j

\* the input rows whose trimmed identifier cell is a test identifier
FilterTestRows ==
    { k \in 1..Len(flt_rows) :
        /\ FilterIdColumn # 0
        /\ FilterIdColumn <= Len(flt_rows[k])
        /\ Strip(flt_rows[k][FilterIdColumn]) \in TEST_IDS }

FilterKeptRows == (1..Len(flt_rows)) \ FilterTestRows

\* C11: _filter_out_test_ids returns the header unchanged and exactly the
\* input rows, in their order, whose trimmed identifier cell is not in
\* TEST_IDS, whatever the other columns hold; without an identifier column
\* the table comes back unchanged.
C11_FilterRemovesExactlyTestRows ==
    flt_out.returned =>
        /\ flt_out.header = flt_header
        /\ Len(flt_out.rows) = Cardinality(FilterKeptRows)
        /\ \A j \in 1..Len(flt_out.rows) :
              \E k \in FilterKeptRows :
                  /\ Cardinality({ m \in FilterKeptRows : m <= k }) = j
                  /\ flt_out.rows[j] = flt_rows[k]
        /\ (FilterIdColumn = 0 => flt_out.rows = flt_rows)

\* a padded test identifier was removed and a client whose other column
\* holds a test identifier was kept
C11_Witness ==
    /\ flt_out.returned
    /\ flt_header = <<"ID", "Name">>
    /\ flt_rows = << <<"1 ", "n">>, <<"5", "1">> >>
    /\ flt_out.rows = << <<"5", "1">> >>

----------------------------------------------------------------------------
(* File classifier *)

\* C12: no file name makes is_cm_supervisors_report and
\* is_cm_supervisors_discharged_report both true; a name the discharged rule
\* matches is never saved as CM_Supervisors, and a name only the parent rule
\* matches is never saved as CM_Supervisors_Discharged.
C12_ClassifierExclusive ==
    LET n == StripName(cls_name)
    IN  /\ ~(is_cm_supervisors_report(cls_name)
             /\ is_cm_supervisors_discharged_report(cls_name))
        /\ cls_out.returned =>
              /\ (_CM_SUP_DISCH_RE(n) => cls_out.dataset # "CM_Supervisors")
              /\ (_CM_SUP_RE(n) /\ ~_CM_SUP_DISCH_RE(n) =>
                     cls_out.dataset # "CM_Supervisors_Discharged")

\* "CM_Supervisors_Discharged_1.csv", which both expressions match, was saved
\* as the discharged dataset
C12_Witness ==
    /\ cls_out.returned
    /\ cls_name = <<"C", "M", "_", "S", "u", "p", "e", "r", "v", "i", "s", "o", "r", "s", "_", "D", "i", "s", "c", "h", "a", "r", "g", "e", "d", "_", "1", ".", "c", "s", "v">>
    /\ _CM_SUP_RE(cls_name)
    /\ cls_out.dataset = "CM_Supervisors_Discharged"

----------------------------------------------------------------------------
(* Save helpers *)

\* the files of a dataset in a directory: <stem>.<ext> or
\* <stem>_<qualifier>.<ext>
DatasetFiles(dir, stem) ==
    { f \in dir :
        \/ HasAt(LowerName(f.name), 1, LowerName(stem) \o <<".">>)
        \/ /\ HasAt(LowerName(f.name), 1, LowerName(stem) \o <<"_">>)
           /\ \E i \in (Len(stem) + 2)..Len(f.name) : f.name[i] = "." }

\* the files of a dataset for one day
DayFiles(dir, stem, day) == DatasetFiles(dir, stem \o <<"_">> \o day)

LastDated == sv_last.fn = "save_dated_replace_same_day" /\ ~sv_last.res.raised

\* every file of the dataset of another day is as it was before the call
OtherDaysIntact ==
    \A f \in DatasetFiles(sv_last.before, sv_last.stem)
             \ DayFiles(sv_last.before, sv_last.stem, DayStr) : f \in sv_dir

LastReplace == sv_last.fn = "save_replace" /\ ~sv_last.res.raised

\* C15: save_replace removes every previous file of the dataset before it
\* saves <stem><ext>; after a call with no file of the dataset locked exactly
\* one file of the dataset exists; when the save under the fixed name raised
\* PermissionError the attachment is saved under <stem>_<timestamp><ext>.
C15_PureReplacement ==
    LastReplace =>
        /\ \E f \in sv_dir : f.name = sv_last.res.path /\ f.content # "old"
        /\ (\A f \in DatasetFiles(sv_last.before, sv_last.stem) : ~f.locked)
              => \A f \in DatasetFiles(sv_dir, sv_last.stem) :
                    f.name = sv_last.res.path
        /\ ~sv_last.res.blocked =>
              \E e \in {<<".", "c", "s", "v">>, <<".", "x", "l", "s", "x">>, <<".", "d", "a", "t">>} :
                  sv_last.res.path = sv_last.stem \o e
        /\ sv_last.res.blocked =>
              \E e \in {<<".", "c", "s", "v">>, <<".", "x", "l", "s", "x">>, <<".", "d", "a", "t">>} :
                  sv_last.res.path = sv_last.stem \o <<"_">> \o Timestamp \o e

\* a save removed the fixed-name file and a qualified file of the dataset
C15_Witness ==
    /\ LastReplace
    /\ ~sv_last.res.blocked
    /\ Cardinality(DatasetFiles(sv_last.before, sv_last.stem)) = 2
    /\ Cardinality(DatasetFiles(sv_dir, sv_last.stem)) = 1


----------------------------------------------------------------------------
(* Inbox pull *)

\* the save calls of the run that stored a file of the dataset
SavedAs(dataset) ==
    { k \in 1..Len(pull_saved) : pull_saved[k].dataset = dataset }

\* the save calls made after one that stored a file of the dataset
AfterSatisfied(dataset) ==
    { k \in 1..Len(pull_saved) : \E j \in SavedAs(dataset) : j < k }

\* C13: within one run at most one ADT file and at most one HHRI(VHA) file
\* is saved; once such a dataset is satisfied no further candidate
\* attachment for it is saved to any destination; a run starts with both
\* flags unset.
C13_OncePerRun ==
    /\ Cardinality(SavedAs("ADT with Zone and Reference")) <= 1
    /\ Cardinality(SavedAs("HHRI(VHA)")) <= 1
    /\ \A k \in AfterSatisfied("ADT with Zone and Reference") :
          ~is_adt_candidate(StripName(pull_saved[k].att.FileName))
    /\ \A k \in AfterSatisfied("HHRI(VHA)") :
          ~is_hhri_vha_report(pull_saved[k].att.FileName)
    /\ (pull_pc = "running" /\ pull_mails = 0) =>
          (~pull_adt_done /\ ~pull_hhri_done)

----------------------------------------------------------------------------
(* Retried move *)

\* the os.replace calls made before the k-th
EarlierTries(k) == { j \in 1..Len(mv_tries) : j < k }

\* the call is over
MoveOver == mv_pc \in {"returned", "raised"}

\* what holds of the os.replace calls of _atomic_replace_move at every moment
MoveAttemptsBounded ==
    /\ Len(mv_tries) <= mv_retries + 1
    /\ \A k \in 1..Len(mv_tries) :
          \A j \in EarlierTries(k) : mv_tries[j].result = "PermissionError"
    /\ Len(mv_slept) <= mv_retries
    /\ \A k \in 1..Len(mv_slept) : mv_slept[k] = backoff_default * ((k - 1) + 1)
    /\ \A k \in 1..Len(mv_tries) :
          mv_tries[k].result = "PermissionError" =>
              \/ k <= Len(mv_slept)
              \/ k = mv_retries + 1
    /\ mv_pc = "returned" =>
          /\ mv_tries # <<>>
          /\ mv_tries[Len(mv_tries)].result = "ok"
          /\ mv_files.dest = "new"
    /\ (mv_pc = "raised" /\ mv_tries # <<>>) =>
          \/ mv_tries[Len(mv_tries)].result = "error"
          \/ /\ mv_tries[Len(mv_tries)].result = "PermissionError"
             /\ Len(mv_tries) = mv_retries + 1
    /\ (MoveOver /\ \E k \in 1..Len(mv_tries) :
                       ~mv_tries[k].locked /\ mv_tries[k].result # "error") =>
          mv_pc = "returned"

\* C16: _atomic_replace_move always terminates and calls os.replace at most
\* retries + 1 times; it returns at the first call that succeeds, sleeps
\* backoff * (i + 1) after the PermissionError of pass i, re-raises any other
\* error at once, raises a PermissionError only from the last call, and so
\* succeeds whenever dest is free at one of the calls.
C16_TerminatesWithinRetries == []MoveAttemptsBounded /\ <>MoveOver

\* the default six retries are used up and the seventh call raises
C16_Witness ==
    /\ mv_pc = "raised"
    /\ mv_retries = retries_default
    /\ Len(mv_tries) = retries_default + 1
    /\ Len(mv_slept) = retries_default
    /\ mv_tries[Len(mv_tries)].result = "PermissionError"

----------------------------------------------------------------------------
(* Table writers and locks *)

\* the calls on the destination that found it locked
LockedTries == { k \in 1..Len(wr_tries) : wr_tries[k].result = "PermissionError" }

\* C17: a table write whose final replace finds the destination locked is
\* retried: a writer never ends with the PermissionError of its first locked
\* call on the destination.
C17_LockedWriteRetried ==
    (wr_pc = "raised" /\ LockedTries # {}) => Cardinality(LockedTries) >= 2

----------------------------------------------------------------------------
(* Choice of the canonical table *)

\* the place of a candidate path in the order base-name-major,
\* extension-minor (.csv, then .xlsx, then .xls)
CandidateRank(p) ==
    LET b == CHOOSE k \in 1..Len(MainBaseCandidates) : MainBaseCandidates[k] = p.base
        e == IF p.ext = ".csv" THEN 1 ELSE IF p.ext = ".xlsx" THEN 2 ELSE 3
    IN  3 * (b - 1) + e

ExistingCandidates(dir) == { p \in MainPaths : dir[p] # NoFile }

\* the rows the raw files hold, as text
RawRowsAsText ==
    UNION { Range(TextOf(raw[n].rows)) : n \in { m \in Range(RawNames) : raw[m] # NoFile } }

----------------------------------------------------------------------------
(* Encodings *)

\* the priority list of the reader
EncodingsOf(reader) ==
    IF reader = "read_table" THEN ReadTableEncodings ELSE OpenEncodings

\* C19: a delimited file is read with the first encoding of the priority
\* list under which the whole file decodes, so a file that is no valid UTF-8
\* but valid in the 8-bit code page is loaded wherever those bytes stand;
\* lossy decoding is used only if every listed encoding fails.
C19_FirstDecodingEncoding ==
    rd_out.kind # "none" =>
        /\ FirstDecoding(EncodingsOf(rd_reader), rd_bytes) # <<>> =>
              /\ rd_out.kind = "loaded"
              /\ rd_out.enc = FirstDecoding(EncodingsOf(rd_reader), rd_bytes)[1]
        /\ rd_out.lossy => FirstDecoding(EncodingsOf(rd_reader), rd_bytes) = <<>>

----------------------------------------------------------------------------
(* Header search *)

\* the zero-based indexes of the records whose first cell contains a marker
\* of the call, case-insensitively
MarkerRecords ==
    { i \in 0..(Len(hd_records) - 1) :
        /\ hd_records[i + 1] # <<>>
        /\ \E n \in TreatCalls[hd_call].needles :
              Contains(Lower(Strip(hd_records[i + 1][1])), Lower(n)) }

\* the records that follow the record of zero-based index i
RecordsAfter(i) == [k \in 1..(Len(hd_records) - (i + 1)) |-> hd_records[i + 1 + k]]

\* the header index out.hdr_idx is the smallest marker record, None (-1)
\* when there is none, and on None the call returns
HeaderFound(out) ==
    /\ MarkerRecords = {} <=> out.hdr_idx = -1
    /\ MarkerRecords # {} =>
          /\ out.hdr_idx \in MarkerRecords
          /\ \A i \in MarkerRecords : out.hdr_idx <= i
    /\ out.hdr_idx = -1 => out.kind = "return"

\* C20 as stated: _find_header_row_by_colA returns the smallest zero-based
\* index of a record whose first cell contains a marker, None when there is
\* none; on None process_file writes nothing and the clean file stays as it
\* was; otherwise the rows written are exactly the records after the header
\* record.
C20_RowsAfterHeaderWritten ==
    [][hd_out'.kind # "none" =>
          /\ HeaderFound(hd_out')
          /\ hd_out'.kind = "return" => hd_clean' = hd_clean
          /\ hd_out'.kind = "written" =>
                hd_clean'.rows = RecordsAfter(hd_out'.hdr_idx)]_vars

\* C20, amended: the same, the rows written being exactly the records after
\* the header record when the call has no per-file transform, and what the
\* transform returns for the header record and those records, never more
\* rows than there are such records, when it has one.
C20_RowsAfterHeaderTransformed ==
    [][hd_out'.kind # "none" =>
          /\ HeaderFound(hd_out')
          /\ hd_out'.kind = "return" => hd_clean' = hd_clean
          /\ hd_out'.kind = "written" =>
                /\ TreatCalls[hd_call].transform = "none" =>
                      /\ hd_clean'.header = hd_records[hd_out'.hdr_idx + 1]
                      /\ hd_clean'.rows = RecordsAfter(hd_out'.hdr_idx)
                /\ hd_clean' = Transform(TreatCalls[hd_call].transform,
                                         hd_records[hd_out'.hdr_idx + 1],
                                         RecordsAfter(hd_out'.hdr_idx))
                /\ Len(hd_clean'.rows) <= Len(RecordsAfter(hd_out'.hdr_idx))]_vars

\* two records carry the marker and the first one was taken as the header:
\* the second one is a row of the table written
C20_Witness ==
    /\ hd_out.kind = "written"
    /\ Cardinality(MarkerRecords) = 2
    /\ hd_out.hdr_idx = 1
    /\ TreatCalls[hd_call].transform = "none"
    /\ Len(hd_clean.rows) = 1

----------------------------------------------------------------------------
(* Claims about the header helpers and _rpt_progstafffinance_transform *)

\* the name a by-name operation looks a column up under
ColumnKey(h) == Lower(Strip(h))

\* the columns of the renamed header that a mapping gave the name with key k
RenamedTo(k) ==
    { i \in 1..Len(tf_renamed.given) :
        /\ ColumnKey(tf_renamed.header[i]) = k
        /\ \E m \in 1..Len(tf_mapping) :
              ColumnKey(tf_renamed.given[i]) = Lower(tf_mapping[m][1]) }

\* the keys that name two columns of the renamed header, one of them renamed
CollidingKeys ==
    { k \in { ColumnKey(tf_renamed.header[i]) : i \in 1..Len(tf_renamed.header) } :
        /\ k # ""
        /\ RenamedTo(k) # {}
        /\ \E i, j \in 1..Len(tf_renamed.header) :
              /\ i # j
              /\ ColumnKey(tf_renamed.header[i]) = k
              /\ ColumnKey(tf_renamed.header[j]) = k }

\* C21: when the case-insensitive rename gives a column a canonical name
\* that another column of the table carries (an existing one or another
\* renamed one), the rename returns, and the by-name lookup of that name
\* (_case_index, as the Record Filter and the projection use it) resolves to
\* the column the last-applied mapping produced.
C21_LastAppliedMappingWins ==
    tf_renamed.returned =>
        \A k \in CollidingKeys :
            _case_index(tf_renamed.header, k) =
                (CHOOSE i \in RenamedTo(k) : \A j \in RenamedTo(k) : j <= i)

\* the text of the combined cell of a row, as line 151 reads it
CombinedText(r) ==
    LET i_client == _case_index(tf_header, "textbox55")
    IN  Strip(IF i_client <= Len(r) THEN r[i_client] ELSE "")

\* C22: after _rpt_progstafffinance_transform, for every data row, whatever
\* its length, the cell under the ID column is the trailing parenthesized
\* digits of the row's textbox55 cell (empty when there are none), the
\* ClientName cell is that text without the suffix, and the rows whose
\* extracted ID is a test identifier are the ones removed.
C22_ExtractedIdUnderIdColumn ==
    (tf_out.returned /\ _case_index(tf_header, "textbox55") # 0) =>
        LET kept == SelectSeq(tf_rows, LAMBDA r :
                        ExtractedId(CombinedText(r)) \notin TEST_IDS)
            idc  == Len(tf_out.header)
            namec == _case_index(tf_out.header, "clientname")
        IN  /\ tf_out.header[idc] = "ID"
            /\ namec # 0
            /\ Len(tf_out.rows) = Len(kept)
            /\ \A n \in 1..Len(kept) :
                  /\ tf_out.rows[n][idc] = ExtractedId(CombinedText(kept[n]))
                  /\ tf_out.rows[n][namec] = NameWithoutId(CombinedText(kept[n]))

----------------------------------------------------------------------------
(* Claims about the pipeline of main.py *)

\* C23: a pipeline run starts the six steps in the fixed order clean, treat,
\* move, tclean, alaya, aclean; a step is started only after the previous
\* one finished successfully, and once a step failed (its module did not
\* import, or its runner raised) no later step is started in that run.
C23_StepsInOrderStopOnFailure ==
    \A n \in 1..Len(workers) :
        LET w == workers[n]
        IN  /\ Len(w.started) <= Len(StepKeys)
            /\ w.started = SubSeq(StepKeys, 1, Len(w.started))
            /\ Len(w.started) <= w.ok + 1
            /\ w.failed => Len(w.started) = w.ok + 1

\* a run whose third step failed is over
C23_Witness ==
    \E n \in 1..Len(workers) :
        /\ workers[n].pc = "finished"
        /\ workers[n].failed
        /\ workers[n].started = <<"clean", "treat", "move">>

\* C24: every pipeline run posts exactly one terminal event to the UI queue:
\* done_all only if all six steps succeeded, failed_all otherwise; a run
\* never posts both.
C24_OneTerminalEvent ==
    \A n \in 1..Len(workers) :
        LET w == workers[n]
        IN  /\ Len(w.posted) <= 1
            /\ w.pc = "finished" => Len(w.posted) = 1
            /\ \A k \in 1..Len(w.posted) :
                  w.posted[k] = "done_all" <=> w.ok = Len(STEPS)

\* C25: at most one pipeline worker thread is executing at any time, and
\* app.running is True whenever a pipeline worker is executing.
C25_OneWorkerAtATime ==
    /\ Cardinality({ n \in 1..Len(workers) : Executing(workers[n]) }) <= 1
    /\ (\E n \in 1..Len(workers) : Executing(workers[n])) => app_running

\* C26: after start_pipeline started a run, app.running eventually becomes
\* False and the Run button is enabled again, whether all steps succeed, a
\* step raises, a module fails to import or COM initialisation fails.
C26_RunEventuallyOver ==
    app_running ~> (~app_running /\ btn_run)

\* a run that failed is over, the UI has drained its events and shows the
\* Run button enabled
C26_Witness ==
    /\ Len(workers) = 1
    /\ workers[1].pc = "finished"
    /\ workers[1].failed
    /\ app_q = <<>>
    /\ ~app_running
    /\ btn_run

----------------------------------------------------------------------------
(* Claims about the datasets that share a directory *)

\* the stored file of a dataset: <stem><ext>
StoredFiles(dir, stem) ==
    { f \in dir : \E e \in {<<".", "c", "s", "v">>, <<".", "x", "l", "s", "x">>,
                            <<".", "d", "a", "t">>} : f.name = stem \o e }

\* C27: saving an attachment for one pure-replacement dataset never deletes
\* the stored file of a different dataset in the same directory; after
\* CM_Supervisors and CM_Supervisors_Discharged were saved, in either order,
\* both CM_Supervisors.<ext> and CM_Supervisors_Discharged.<ext> exist.
C27_OtherDatasetsKept ==
    sv_last.fn = "save_replace" =>
        \A other \in ReplaceStems \ {sv_last.stem} :
            \A f \in StoredFiles(sv_last.before, other) :
                \E g \in sv_dir : g.name = f.name /\ g.content = f.content

----------------------------------------------------------------------------
(* Claims about the file handed to _atomic_replace_move *)

\* C28: a file handed to _atomic_replace_move is never lost: after the call
\* returned or raised, also when every replace attempt hit a lock, its
\* content is at the destination or still at its source location, never
\* only at <dest>.~partial, which a later call for the destination deletes.
C28_FileAtDestOrSource ==
    MoveOver => (mv_files.dest = "new" \/ mv_files.src = "new")

----------------------------------------------------------------------------
(* Claims about the mail a stored file comes from *)

PullDatasets ==
    { "ADT with Zone and Reference", "HHRI(VHA)", "CM_Supervisors",
      "CM_Supervisors_Discharged", "Form Report", "Note", "Visits",
      "Client Calls" }

\* the save call whose file is the one stored for the dataset after the
\* run: every save of a dataset replaces the file of the save before
StoredSave(dataset) ==
    CHOOSE k \in SavedAs(dataset) : \A j \in SavedAs(dataset) : j <= k

\* C29: with the mails of the window processed newest first, the file
\* stored for each dataset after a run is the attachment from the most
\* recently received mail that carries the dataset: no file of the dataset
\* was saved from a mail received after the mail of the stored one.
C29_StoredFromNewestMail ==
    \A d \in PullDatasets :
        SavedAs(d) # {} =>
            \A k \in SavedAs(d) :
                pull_saved[StoredSave(d)].mail <= pull_saved[k].mail

----------------------------------------------------------------------------
(* Claims about the report window *)

\* the date a formatted date stands for
strptime(s) ==
    Date(s[3],
         CHOOSE m \in 1..12 : MonthAbbr[m] = s[2],
         CHOOSE d \in 1..31 : TwoDigits(d) = s[1])

\* months since year 0, to compare months of different years
MonthIndex(dt) == dt.year * 12 + dt.month

\* the first day of the month after today's month, one year earlier
FollowingMonthLastYear(dt) ==
    IF dt.month = 12 THEN Date(dt.year, 1, 1)
    ELSE Date(dt.year - 1, dt.month + 1, 1)

\* C30: for every date taken as today the report START_DATE is the first
\* day of the month following today's month, one year earlier, so that the
\* window START_DATE..TODAY spans more than 11 and at most 12 months, also
\* when today falls in December.
C30_WindowOfTwelveMonths ==
    form_dates.start # <<>> =>
        /\ strptime(form_dates.end) = today
        /\ strptime(form_dates.start) = FollowingMonthLastYear(today)
        /\ MonthIndex(strptime(form_dates.end))
              - MonthIndex(strptime(form_dates.start)) = 11

====
